---- MODULE Spec2Model ----
(***************************************************************************)
(* Glycofy browser UI: the HTTP client adapters, the token stores, the     *)
(* asynchronously loaded views, the endpoint fallback chains and the       *)
(* week-start date utility, as state machines.                             *)
(*                                                                         *)
(* Strings are sequences of chunks (a chunk is a string literal, usually   *)
(* one character); the empty string is <<>> and is falsy, as in JS.        *)
(* A null or undefined string value is Null.                               *)
(***************************************************************************)
EXTENDS Integers, Sequences, FiniteSets, TLC

VARIABLES
    ls,        \* localStorage: key -> value (Null when the key is absent)
    ss,        \* sessionStorage: key -> value
    winAccess, \* window.ACCESS of web/app.js
    page,      \* [pathname, search] of the current document (location)
    href,      \* last value assigned to location (Null: no navigation asked)
    req,       \* the adapter call in flight (Null: none)
    out,       \* what the last settled adapter call did (Null: none yet)
    logout,    \* position of the logout click handler: "idle", "posting", "done"
    lastWrite, \* token store of web/app.js: the last set or clear made
    got,       \* token store of web/app.js: what the last getToken() returned
    op,        \* the user operation running (saveUser, fetchStravaStatus)
    dateIn,    \* the Date given to mondayUTC / startOfWeekUTC
    dateOut,   \* the Date it returned (NoDate: not called yet)
    loads,     \* the view loads started on the page, in the order triggered
    view,      \* what the page shows and keeps (grid, plan list, KPIs, rows)
    week,      \* the last list of week dates computed, and by what
    gro,       \* grocery aggregation and export: the plans given, the result
    agg,       \* day/sport aggregation: the activities and range given, the result
    sport,     \* sport normalization: the activity given, its label
    unit,      \* unit conversion: the function called, its argument, its result
    dest,      \* login page: the `return` parameter given, the path computed
    form,      \* login form: inFlight, the button, the requests, the handlers
    sync,      \* doStravaSync: where it is, the buttons, what ran
    wk         \* plan-week page: the 7 fetches of a load, the cards, the plan list

storageVars == <<ls, ss, winAccess>>
httpVars == <<page, href, req, out, logout>>
storeVars == <<lastWrite, got>>
opVars == <<op>>
dateVars == <<dateIn, dateOut>>
viewVars == <<loads, view>>
utilVars == <<week, gro, agg, sport>>
moreVars == <<unit, dest, form, sync, wk>>

vars == <<storageVars, httpVars, storeVars, opVars, dateVars, viewVars, utilVars,
         moreVars>>

\* What the actions of each part leave alone.
HttpFrame == UNCHANGED <<storeVars, opVars, dateVars, viewVars, utilVars, moreVars>>
StoreFrame == UNCHANGED <<httpVars, opVars, dateVars, viewVars, utilVars, moreVars>>
OpFrame == UNCHANGED <<storageVars, page, req, out, logout, storeVars, dateVars, viewVars, utilVars, moreVars>>
DateFrame == UNCHANGED <<storageVars, httpVars, storeVars, opVars, viewVars, utilVars, moreVars>>
ViewFrame == UNCHANGED <<storageVars, httpVars, storeVars, opVars, dateVars, utilVars, moreVars>>

\* No Date value.
NoDate == [kind |-> "none"]

\* A pure function of the page that has not been called.
NoCall == [kind |-> "none"]

\* None of the date-list, grocery, aggregation and sport functions was called.
UtilIdle ==
    /\ week = NoCall /\ gro = NoCall /\ agg = NoCall /\ sport = NoCall
    /\ unit = NoCall /\ dest = NoCall /\ form = NoCall /\ sync = NoCall /\ wk = NoCall

\* JS null / undefined / a missing key, among string values.
Null == <<"<null>">>

\* window.__glyco_weekPlans before any load assigned it.
NoPlans == [set |-> FALSE, by |-> 0, plans |-> <<>>]

\* The document doc as first shown: empty week grid, no plan list, blank
\* KPIs, no activity rows, let page = 1 and let total = 0.
BlankView(doc) ==
    [doc |-> doc, grid |-> <<>>, weekPlans |-> NoPlans, status |-> "",
     kpis |-> [by |-> 0, range |-> <<>>, state |-> "blank"],
     rows |-> [by |-> 0, page |-> 0], total |-> 0, actPage |-> 1]

\* No view is modelled: the page is not one of the loading pages.
NoView == BlankView("none")

\* ------------------------------------------------------------------------
\* Strings
\* ------------------------------------------------------------------------

\* JS truthiness of a string-or-null value.
Truthy(s) == s # Null /\ s # <<>>

\* a || b for string-or-null values.
Or(a, b) == IF Truthy(a) THEN a ELSE b

\* Characters encodeURIComponent leaves alone (those the model uses).
Unreserved ==
    {"a", "b", "d", "h", "i", "l", "m", "p", "q", "r", "t", "u", "x",
     "1", "2", ".", "-", "_"}

\* The escape encodeURIComponent writes for a reserved character.
PercentOf(c) ==
    CASE c = "/" -> <<"%", "2", "F">>
      [] c = "?" -> <<"%", "3", "F">>
      [] c = "=" -> <<"%", "3", "D">>
      [] c = "&" -> <<"%", "2", "6">>
      [] c = " " -> <<"%", "2", "0">>
      [] c = "+" -> <<"%", "2", "B">>
      [] c = "%" -> <<"%", "2", "5">>
      [] OTHER   -> <<"%", "3", "F">>

RECURSIVE encodeURIComponent(_)
encodeURIComponent(s) ==
    IF s = <<>> THEN <<>>
    ELSE (IF Head(s) \in Unreserved THEN <<Head(s)>> ELSE PercentOf(Head(s)))
         \o encodeURIComponent(Tail(s))

\* The character a percent escape stands for (URLSearchParams decoding).
UnPercent(h1, h2) ==
    CASE h1 = "2" /\ h2 = "F" -> "/"
      [] h1 = "3" /\ h2 = "F" -> "?"
      [] h1 = "3" /\ h2 = "D" -> "="
      [] h1 = "2" /\ h2 = "6" -> "&"
      [] h1 = "2" /\ h2 = "0" -> " "
      [] h1 = "2" /\ h2 = "B" -> "+"
      [] h1 = "2" /\ h2 = "5" -> "%"
      [] OTHER -> "?"

RECURSIVE FormDecode(_)
FormDecode(s) ==
    IF s = <<>> THEN <<>>
    ELSE IF Head(s) = "%" /\ Len(s) >= 3
         THEN <<UnPercent(s[2], s[3])>> \o FormDecode(SubSeq(s, 4, Len(s)))
    ELSE IF Head(s) = "+" THEN <<" ">> \o FormDecode(Tail(s))
    ELSE <<Head(s)>> \o FormDecode(Tail(s))

\* Index of the first c in s, 0 when there is none.
IndexOf(s, c) ==
    IF \E i \in 1..Len(s) : s[i] = c
    THEN CHOOSE i \in 1..Len(s) : s[i] = c /\ \A j \in 1..(i-1) : s[j] # c
    ELSE 0

\* The parts of s between the separators c.
RECURSIVE SplitOn(_, _)
SplitOn(s, c) ==
    LET i == IndexOf(s, c) IN
    IF i = 0 THEN <<s>>
    ELSE <<SubSeq(s, 1, i-1)>> \o SplitOn(SubSeq(s, i+1, Len(s)), c)

\* new URL(u).searchParams.get(key): the decoded value of the first
\* parameter named key in the query of u, Null when there is none.
SearchParamGet(u, key) ==
    LET q     == IndexOf(u, "?")
        query == IF q = 0 THEN <<>> ELSE SubSeq(u, q+1, Len(u))
        pairs == SplitOn(query, "&")
        Name(p)  == LET e == IndexOf(p, "=") IN
                    FormDecode(IF e = 0 THEN p ELSE SubSeq(p, 1, e-1))
        Value(p) == LET e == IndexOf(p, "=") IN
                    FormDecode(IF e = 0 THEN <<>> ELSE SubSeq(p, e+1, Len(p)))
        hits  == {i \in 1..Len(pairs) : pairs[i] # <<>> /\ Name(pairs[i]) = key}
    IN IF hits = {} THEN Null
       ELSE Value(pairs[CHOOSE i \in hits : \A j \in hits : i <= j])

LoginHtml ==
    <<"/", "u", "i", "/", "l", "o", "g", "i", "n", ".", "h", "t", "m", "l">>

ReturnKey == <<"r", "e", "t", "u", "r", "n">>

\* `/ui/login.html?return=${ret}`
LoginUrl(ret) == LoginHtml \o <<"?">> \o ReturnKey \o <<"=">> \o ret

\* location.pathname + location.search
CurrentPath == page.pathname \o page.search

\* ------------------------------------------------------------------------
\* Browser storage and the token stores
\* ------------------------------------------------------------------------

TOKEN_KEY == "glyco_token"

\* The keys web/app.js reads, in the order getToken tries them.
WebKeys == <<"ACCESS", "access_token", "TOKEN", "token">>

LocalKeys == {TOKEN_KEY, "ACCESS", "access_token", "TOKEN", "token"}
SessionKeys == {"ACCESS", "access_token", "TOKEN", "token"}

TokA == <<"tokA">>
TokB == <<"tokB">>
Tokens == {TokA, TokB}

EmptyLocal == [k \in LocalKeys |-> Null]
EmptySession == [k \in SessionKeys |-> Null]

\* ui/app.js getToken: localStorage.getItem(TOKEN_KEY)
getToken(l) == l[TOKEN_KEY]

\* ui/app.js setToken: a falsy value removes the key.
setToken(l, val) ==
    IF ~Truthy(val) THEN [l EXCEPT ![TOKEN_KEY] = Null]
    ELSE [l EXCEPT ![TOKEN_KEY] = val]

\* ui/app.js API.authHeaders: the headers object it returns.
authHeaders(l) ==
    LET t == getToken(l) IN
    [h \in {"Accept", "Authorization", "Content-Type"} |->
        IF h = "Authorization" /\ Truthy(t) THEN <<"Bearer ">> \o t ELSE Null]

\* web/app.js getToken, the storage lookup: the first truthy value of
\* local/session ACCESS, access_token, TOKEN, token; the || chain ends with
\* the last operand when none is truthy.
RECURSIVE WebLookupFrom(_, _, _)
WebLookupFrom(i, l, s) ==
    IF Truthy(l[WebKeys[i]]) THEN l[WebKeys[i]]
    ELSE IF i = Len(WebKeys) THEN s[WebKeys[i]]
    ELSE IF Truthy(s[WebKeys[i]]) THEN s[WebKeys[i]]
    ELSE WebLookupFrom(i + 1, l, s)

\* web/app.js getToken: the value it returns.
WebGetToken(w, l, s) ==
    IF Truthy(w) THEN w
    ELSE Or(WebLookupFrom(1, l, s), <<>>)

\* web/app.js getToken: window.ACCESS after the call (the found token is cached).
WebGetTokenAccess(w, l, s) ==
    IF Truthy(w) THEN w
    ELSE IF Truthy(WebLookupFrom(1, l, s)) THEN WebLookupFrom(1, l, s)
    ELSE w

\* part_002 getToken: a ?token= parameter is saved under access_token first.
GlycofySaved(l, qtoken) ==
    IF Truthy(qtoken) THEN [l EXCEPT !["access_token"] = qtoken] ELSE l

GlycofyGetToken(l, qtoken) == Or(GlycofySaved(l, qtoken)["access_token"], <<>>)

\* ------------------------------------------------------------------------
\* Requests and responses
\* ------------------------------------------------------------------------

HeaderNames == {"Accept", "Authorization", "Content-Type"}

NoHeaders == [h \in HeaderNames |-> Null]

\* Object.assign on header objects: a later object's own keys win.
Assign(a, b) == [h \in HeaderNames |-> IF b[h] # Null THEN b[h] ELSE a[h]]

JsonType == <<"application/json">>

\* The opts.headers values callers pass (Null entries are keys they leave out).
\* The options objects callers pass. hasHeaders: opts has a headers key;
\* a Null method or credentials is a key opts leaves out.
CallerOpt(method, hasHeaders, headers, credentials) ==
    [method |-> method, hasHeaders |-> hasHeaders, headers |-> headers,
     credentials |-> credentials]

Opts ==
    { CallerOpt(Null, FALSE, NoHeaders, Null),
      CallerOpt(<<"POST">>, FALSE, NoHeaders, Null),
      CallerOpt(<<"PUT">>, TRUE, [NoHeaders EXCEPT !["Content-Type"] = JsonType], Null),
      CallerOpt(Null, TRUE, NoHeaders, <<"include">>),
      CallerOpt(Null, TRUE, [NoHeaders EXCEPT !["Authorization"] = <<"Basic ", "xyz">>], Null),
      CallerOpt(<<"POST">>, FALSE, NoHeaders, <<"omit">>) }

Statuses == {200, 204, 401, 404, 500}

\* res.ok
Ok(status) == status >= 200 /\ status <= 299

StatusName(status) ==
    CASE status = 200 -> <<"OK">>
      [] status = 204 -> <<"No Content">>
      [] status = 401 -> <<"Unauthorized">>
      [] status = 404 -> <<"Not Found">>
      [] status = 405 -> <<"Method Not Allowed">>
      [] OTHER -> <<"Internal Server Error">>

\* The decimal digits of a status code, as String(status) writes them.
StatusDigits(status) ==
    CASE status = 200 -> <<"200">>
      [] status = 204 -> <<"204">>
      [] status = 401 -> <<"401">>
      [] status = 404 -> <<"404">>
      [] status = 405 -> <<"405">>
      [] OTHER -> <<"500">>

\* `${res.status} ${res.statusText}`

\* Content-Type header values (Null: the header is missing).
ContentTypes ==
    { Null, JsonType, <<"application/json", "; charset=utf-8">>, <<"text/plain">> }

\* ct === 'application/json'
IncludesJsonExact(ct) == ct = <<"application/json">>

\* ct.includes('application/json')
IncludesJson(ct) == \E i \in 1..Len(ct) : ct[i] = "application/json"

\* Raw response bodies.
BodyEmpty   == <<>>
BodyHtml    == <<"<html>oops</html>">>
BodyNull    == <<"null">>
BodyObj     == <<"{}">>
BodyDetail  == <<"{detail:'bad date'}">>
BodyMessage == <<"{message:'nope'}">>
BodyBoth    == <<"{detail:'bad date',message:'nope'}">>
BodyBlank   == <<"{detail:'',message:'nope'}">>
Bodies ==
    { BodyEmpty, BodyHtml, BodyNull, BodyObj, BodyDetail, BodyMessage,
      BodyBoth, BodyBlank }

\* JS values: null, a string, or an object with its detail and message
\* properties (Null: the property is missing).
JsNull == [t |-> "null"]
JsString(s) == [t |-> "string", s |-> s]
JsObject(d, m) == [t |-> "object", detail |-> d, message |-> m]
NoValue == [t |-> "none"]

\* JSON.parse of a raw body: [ok |-> FALSE] when it is not JSON.
JsonParse(raw) ==
    CASE raw = BodyNull    -> [ok |-> TRUE, val |-> JsNull]
      [] raw = BodyObj     -> [ok |-> TRUE, val |-> JsObject(Null, Null)]
      [] raw = BodyDetail  -> [ok |-> TRUE, val |-> JsObject(<<"bad date">>, Null)]
      [] raw = BodyMessage -> [ok |-> TRUE, val |-> JsObject(Null, <<"nope">>)]
      [] raw = BodyBoth    -> [ok |-> TRUE, val |-> JsObject(<<"bad date">>, <<"nope">>)]
      [] raw = BodyBlank   -> [ok |-> TRUE, val |-> JsObject(<<>>, <<"nope">>)]
      [] OTHER             -> [ok |-> FALSE, val |-> NoValue]

\* What fetch settles with: a response whose headers arrived (the body may
\* still fail to read: readable = FALSE), or a network error.
\* (The body of an unreadable response and the status text of a 2xx one are
\* read by no adapter: one value of each is enough.)
HttpResponses ==
    { r \in [ kind : {"http"},
              status : Statuses,
              h2 : BOOLEAN,
              ct : ContentTypes,
              body : Bodies,
              readable : BOOLEAN ] :
        /\ (~r.readable => r.body = BodyEmpty)
        /\ (Ok(r.status) => ~r.h2) }

NetworkError ==
    [kind |-> "neterr", status |-> 0, h2 |-> FALSE, ct |-> Null,
     body |-> BodyEmpty, readable |-> FALSE]

\* res.statusText: HTTP/2 responses carry none.
StatusText(res) == IF res.h2 THEN <<>> ELSE StatusName(res.status)

\* `${res.status} ${res.statusText}`
StatusLine(res) == StatusDigits(res.status) \o <<" ">> \o StatusText(res)

\* res.headers.get('Content-Type') || ''
CtOf(res) == Or(res.ct, <<>>)

\* res.json(): [ok, val]; it rejects when the body cannot be read or parsed.
ResJson(res) ==
    IF res.readable THEN JsonParse(res.body) ELSE [ok |-> FALSE, val |-> NoValue]

\* res.text(): [ok, val]
ResText(res) ==
    IF res.readable THEN [ok |-> TRUE, val |-> res.body]
    ELSE [ok |-> FALSE, val |-> <<>>]

\* ------------------------------------------------------------------------
\* ui/app.js fetchJSON
\* ------------------------------------------------------------------------

Idle == [kind |-> "none"]
NoGet == [kind |-> "none"]

\* A request in flight: what fetch was given, and the opts of the call.
Sent(adapter, o, headers, credentials) ==
    [kind |-> "sent", adapter |-> adapter, opts |-> o, method |-> o.method,
     headers |-> headers, credentials |-> credentials]

Resolved(adapter, res, value) ==
    [kind |-> "resolved", adapter |-> adapter, sent |-> TRUE, res |-> res,
     value |-> value, message |-> Null, href |-> Null]

Rejected(adapter, res, message, to) ==
    [kind |-> "rejected", adapter |-> adapter, sent |-> TRUE, res |-> res,
     value |-> NoValue, message |-> message, href |-> to]

\* The headers fetchJSON sends: Accept, then authHeaders(), then opts.headers.
fetchJSONHeaders(l, o) ==
    Assign(Assign([NoHeaders EXCEPT !["Accept"] = JsonType], authHeaders(l)),
           IF o.hasHeaders THEN o.headers ELSE NoHeaders)

\* fetch's own default in place of 'include'.
fetchJSONCredentialsSameOrigin(o) ==
    IF o.credentials # Null THEN o.credentials ELSE <<"same-origin">>

\* The credentials mode fetchJSON sends: 'include', then opts.
fetchJSONCredentials(o) ==
    IF o.credentials # Null THEN o.credentials ELSE <<"include">>

\* data && (data.message || data.detail)
DetailOfMessageFirst(data) ==
    IF data.t = "object" THEN Or(data.message, data.detail) ELSE Null

\* data && (data.detail || data.message)
DetailOf(data) ==
    IF data.t = "object" THEN Or(data.detail, data.message) ELSE Null

\* What fetchJSON settles with once fetch has settled with res.
fetchJSONOutcome(res) ==
    IF res.kind = "neterr"
    THEN Rejected("fetchJSON", res, <<"Failed to fetch">>, Null)
    ELSE IF res.status = 401
    THEN Rejected("fetchJSON", res, <<"Unauthorized">>,
                  LoginUrl(encodeURIComponent(CurrentPath)))
    ELSE IF IncludesJson(CtOf(res))
    THEN LET data == IF ResJson(res).ok THEN ResJson(res).val ELSE JsNull IN
         IF ~Ok(res.status)
         THEN Rejected("fetchJSON", res, Or(DetailOf(data), StatusLine(res)), Null)
         ELSE Resolved("fetchJSON", res, data)
    ELSE LET txt == IF ResText(res).ok THEN ResText(res).val ELSE <<>> IN
         IF ~Ok(res.status)
         THEN Rejected("fetchJSON", res, Or(txt, StatusLine(res)), Null)
         ELSE Resolved("fetchJSON", res, JsString(txt))

\* fetchJSON up to its await fetch(url, fetchOpts).
FetchJSONCall(o) ==
    /\ req = Idle
    /\ req' = Sent("fetchJSON", o, fetchJSONHeaders(ls, o),
                   fetchJSONCredentials(o))
    /\ out' = Idle
    /\ UNCHANGED <<ls, ss, winAccess, page, href, logout>>
    /\ HttpFrame

\* fetchJSON from the settling of fetch to its own settling.
FetchJSONSettle(res) ==
    /\ req.kind = "sent" /\ req.adapter = "fetchJSON"
    /\ out' = fetchJSONOutcome(res)
    /\ href' = IF out'.href # Null THEN out'.href ELSE href
    /\ req' = Idle
    /\ UNCHANGED <<ls, ss, winAccess, page, logout>>
    /\ HttpFrame

\* The logout button: the token is removed, then POST /auth/logout is awaited.
LogoutClick ==
    /\ logout = "idle"
    /\ ls' = [ls EXCEPT ![TOKEN_KEY] = Null]
    /\ logout' = "posting"
    /\ UNCHANGED <<ss, winAccess, page, href, req, out>>
    /\ HttpFrame

\* POST /auth/logout settled (either way): window.location.href = '/ui/login.html'.
LogoutSettled ==
    /\ logout = "posting"
    /\ href' = LoginHtml
    /\ logout' = "done"
    /\ UNCHANGED <<ls, ss, winAccess, page, req, out>>
    /\ HttpFrame

\* ------------------------------------------------------------------------
\* web/app.js api and ensureAuthOrRedirect
\* ------------------------------------------------------------------------

\* JSON.stringify of a parsed value: the text that parses to it.
JsonStringify(v) == CHOOSE b \in Bodies : JsonParse(b).ok /\ JsonParse(b).val = v

\* The headers api sends: opts.headers, then Authorization when a token is found.
WebApiHeaders(t, o) ==
    Assign(IF o.hasHeaders THEN o.headers ELSE NoHeaders,
           [NoHeaders EXCEPT !["Authorization"] =
               IF Truthy(t) THEN <<"Bearer ">> \o t ELSE Null])

\* ensureAuthOrRedirect(returnUrl): the URL it sends the browser to, Null
\* when getToken() finds a token and it returns instead.
ensureAuthOrRedirect(t, returnUrl) ==
    IF Truthy(t) THEN Null
    ELSE LoginUrl(encodeURIComponent(Or(returnUrl, CurrentPath)))

\* What api settles with once fetch has settled with res; t is what
\* getToken() returns at that time.
WebApiOutcome(res, t) ==
    IF res.kind = "neterr"
    THEN Rejected("webApi", res, <<"Failed to fetch">>, Null)
    ELSE
    LET isJson == IncludesJson(CtOf(res))
        data   == IF isJson THEN ResJson(res) ELSE ResText(res)
        text   == IF isJson THEN JsonStringify(data.val) ELSE data.val
        target == ensureAuthOrRedirect(t, CurrentPath)
    IN  IF ~data.ok
        THEN Rejected("webApi", res, <<"body could not be read">>, Null)
        ELSE IF ~Ok(res.status)
        THEN IF res.status = 401 /\ target # Null
             THEN Rejected("webApi", res,
                           <<"Auth required; redirecting to ">> \o target, target)
             ELSE Rejected("webApi", res, text, Null)
        ELSE Resolved("webApi", res,
                      IF isJson THEN data.val ELSE JsString(data.val))

\* api up to its await fetch(path, {...opts, headers}).
WebApiCall(o) ==
    /\ req = Idle
    /\ req' = Sent("webApi", o,
                   WebApiHeaders(WebGetToken(winAccess, ls, ss), o), o.credentials)
    /\ winAccess' = WebGetTokenAccess(winAccess, ls, ss)
    /\ out' = Idle
    /\ UNCHANGED <<ls, ss, page, href, logout>>
    /\ HttpFrame

\* api from the settling of fetch to its own settling.
WebApiSettle(res) ==
    /\ req.kind = "sent" /\ req.adapter = "webApi"
    /\ out' = WebApiOutcome(res, WebGetToken(winAccess, ls, ss))
    /\ href' = IF out'.href # Null THEN out'.href ELSE href
    /\ winAccess' =
         IF res.kind = "http" /\ res.status = 401
            /\ (IF IncludesJson(CtOf(res)) THEN ResJson(res) ELSE ResText(res)).ok
         THEN WebGetTokenAccess(winAccess, ls, ss)
         ELSE winAccess
    /\ req' = Idle
    /\ UNCHANGED <<ls, ss, page, logout>>
    /\ HttpFrame

\* ------------------------------------------------------------------------
\* window.__glycofy api (unnamed/part_002)
\* ------------------------------------------------------------------------

\* The headers api sends: Content-Type and Authorization, then opts.headers.
GlycofyApiHeaders(token, o) ==
    Assign([NoHeaders EXCEPT !["Content-Type"] = JsonType,
                             !["Authorization"] = <<"Bearer ">> \o token],
           IF o.hasHeaders THEN o.headers ELSE NoHeaders)

\* What api settles with once fetch has settled with res.
GlycofyApiOutcome(res) ==
    IF res.kind = "neterr"
    THEN Rejected("glycofyApi", res, <<"Failed to fetch">>, Null)
    ELSE IF res.status = 401
    THEN Rejected("glycofyApi", res, <<"Unauthorized">>,
                  LoginUrl(encodeURIComponent(CurrentPath)))
    ELSE IF ~Ok(res.status)
    THEN LET txt == IF ResText(res).ok THEN ResText(res).val ELSE <<>> IN
         Rejected("glycofyApi", res,
                  StatusLine(res) \o (IF Truthy(txt) THEN <<": ">> \o txt ELSE <<>>),
                  Null)
    ELSE IF IncludesJson(CtOf(res))
    THEN IF ResJson(res).ok
         THEN Resolved("glycofyApi", res, ResJson(res).val)
         ELSE Rejected("glycofyApi", res, <<"body could not be read">>, Null)
    ELSE IF ResText(res).ok
         THEN Resolved("glycofyApi", res, JsString(ResText(res).val))
         ELSE Rejected("glycofyApi", res, <<"body could not be read">>, Null)

\* api up to its await fetch; without a token it redirects and throws
\* before any request is sent.
GlycofyApiCall(o) ==
    LET token == GlycofyGetToken(ls, page.qtoken)
        to    == LoginUrl(encodeURIComponent(CurrentPath))
    IN
    /\ req = Idle
    /\ ls' = GlycofySaved(ls, page.qtoken)
    /\ IF ~Truthy(token)
       THEN /\ req' = Idle
            /\ out' = [Rejected("glycofyApi", NetworkError, <<"No auth token">>, to)
                          EXCEPT !.sent = FALSE]
            /\ href' = to
       ELSE /\ req' = Sent("glycofyApi", o, GlycofyApiHeaders(token, o),
                           o.credentials)
            /\ out' = Idle
            /\ href' = href
    /\ UNCHANGED <<ss, winAccess, page, logout>>
    /\ HttpFrame

\* api from the settling of fetch to its own settling.
GlycofyApiSettle(res) ==
    /\ req.kind = "sent" /\ req.adapter = "glycofyApi"
    /\ out' = GlycofyApiOutcome(res)
    /\ href' = IF out'.href # Null THEN out'.href ELSE href
    /\ req' = Idle
    /\ UNCHANGED <<ls, ss, winAccess, page, logout>>
    /\ HttpFrame

\* ------------------------------------------------------------------------
\* The adapters, as one system
\* ------------------------------------------------------------------------

Pathnames == { <<"/", "u", "i", "/", "p", ".", "h", "t", "m", "l">> }

Searches ==
    { <<>>,
      <<"?", "d", "=", "1">>,
      <<"?", "q", "=", "a", "&", "r", "=", "/", "x", " ", "b">> }

Pages == [pathname : Pathnames, search : Searches, qtoken : {Null, TokA}]

Init ==
    /\ \E g \in {Null, TokA}, a \in {Null, TokB} :
          ls = [EmptyLocal EXCEPT ![TOKEN_KEY] = g, !["access_token"] = a]
    /\ ss = EmptySession
    /\ winAccess = Null
    /\ page \in Pages
    /\ href = Null
    /\ req = Idle
    /\ out = Idle
    /\ logout = "idle"
    /\ lastWrite = Idle /\ got = NoGet
    /\ op = Idle
    /\ dateIn = NoDate /\ dateOut = NoDate
    /\ UtilIdle
    /\ loads = <<>> /\ view = NoView

Responses == HttpResponses \cup {NetworkError}

Next ==
    \/ \E o \in Opts : FetchJSONCall(o)
    \/ \E r \in Responses : FetchJSONSettle(r)
    \/ \E o \in Opts : WebApiCall(o)
    \/ \E r \in Responses : WebApiSettle(r)
    \/ \E o \in Opts : GlycofyApiCall(o)
    \/ \E r \in Responses : GlycofyApiSettle(r)
    \/ LogoutClick
    \/ LogoutSettled

Spec == Init /\ [][Next]_vars

\* ------------------------------------------------------------------------
\* Properties of the adapters
\* ------------------------------------------------------------------------

\* The last settled call got a response with this adapter and status class.
Settled(adapter) ==
    out.kind # "none" /\ out.adapter = adapter /\ out.sent /\ out.res.kind = "http"

\* The path of a URL: what precedes its first "?".
PathOf(u) == IF IndexOf(u, "?") = 0 THEN u ELSE SubSeq(u, 1, IndexOf(u, "?") - 1)

\* The call sent the browser to the login view, with the current path and
\* query as the decoded `return` parameter.
RedirectedToLogin ==
    /\ out.href # Null
    /\ PathOf(out.href) = LoginHtml
    /\ SearchParamGet(out.href, ReturnKey) = CurrentPath

\* C3: in every adapter, a 401 response sets the browser location to the
\* login view with return = the encoded current path and query, and the call
\* rejects, whether or not a token is stored.
C3_UnauthorizedRedirects ==
    \A adapter \in {"fetchJSON", "webApi", "glycofyApi"} :
        (Settled(adapter) /\ out.res.status = 401)
            => (out.kind = "rejected" /\ RedirectedToLogin)

\* A step on which fetchJSON hands a request to fetch.
FetchJSONSends == req.kind = "none" /\ req'.kind = "sent" /\ req'.adapter = "fetchJSON"

\* The Authorization header the caller's own opts carry (Null: none).
CallerAuthorization(o) == IF o.hasHeaders THEN o.headers["Authorization"] ELSE Null

\* C5 as stated: every request of fetchJSON carries Authorization: Bearer
\* <token> when the store holds a token at call time, none injected by the
\* adapter when the store is empty, and credentials 'include', for every opts.
C5_AlwaysBearerAndInclude ==
    [][FetchJSONSends =>
        /\ req'.credentials = <<"include">>
        /\ (Truthy(getToken(ls)) =>
               req'.headers["Authorization"] = <<"Bearer ">> \o getToken(ls))
        /\ (~Truthy(getToken(ls)) =>
               req'.headers["Authorization"] = CallerAuthorization(req'.opts))]_vars

\* C5 amended: the Bearer header and credentials 'include' are defaults that
\* the caller's opts override: Authorization is the caller's own header when
\* opts.headers has one, else Bearer <token> when the store holds a token at
\* call time, else absent; credentials is the caller's opts.credentials when
\* given, else 'include'.
C5_BearerAndIncludeByDefault ==
    [][FetchJSONSends =>
        /\ (req'.opts.credentials = Null => req'.credentials = <<"include">>)
        /\ (req'.opts.credentials # Null => req'.credentials = req'.opts.credentials)
        /\ (CallerAuthorization(req'.opts) # Null =>
               req'.headers["Authorization"] = CallerAuthorization(req'.opts))
        /\ (CallerAuthorization(req'.opts) = Null /\ Truthy(getToken(ls)) =>
               req'.headers["Authorization"] = <<"Bearer ">> \o getToken(ls))
        /\ (CallerAuthorization(req'.opts) = Null /\ ~Truthy(getToken(ls)) =>
               req'.headers["Authorization"] = Null)]_vars

\* A fetchJSON request in flight that carries the stored token and
\* credentials 'include', from opts that set neither.
C5_Witness ==
    /\ req.kind = "sent" /\ req.adapter = "fetchJSON"
    /\ Truthy(getToken(ls))
    /\ req.opts.credentials = Null /\ CallerAuthorization(req.opts) = Null
    /\ req.headers["Authorization"] = <<"Bearer ">> \o getToken(ls)
    /\ req.credentials = <<"include">>

\* The detail a server gave with an error response, Null when it gave none:
\* the detail property of a JSON object body, else its message property; the
\* non-empty body of a response of another content type.
ServerDetail(res) ==
    IF ~res.readable THEN Null
    ELSE IF res.ct \in {JsonType, <<"application/json", "; charset=utf-8">>}
    THEN CASE res.body \in {BodyDetail, BodyBoth}   -> <<"bad date">>
           [] res.body \in {BodyMessage, BodyBlank} -> <<"nope">>
           [] OTHER -> Null
    ELSE IF res.body # <<>> THEN res.body ELSE Null

\* C6: for a non-2xx response other than 401, fetchJSON rejects with the
\* server-provided detail when there is one, else with the status line.
C6_ErrorCarriesDetailOrStatusLine ==
    (Settled("fetchJSON") /\ ~Ok(out.res.status) /\ out.res.status # 401)
        => /\ out.kind = "rejected"
           /\ out.message =
                 IF ServerDetail(out.res) # Null THEN ServerDetail(out.res)
                 ELSE StatusDigits(out.res.status) \o <<" ">>
                      \o (IF out.res.h2 THEN <<>> ELSE StatusName(out.res.status))

\* fetchJSON rejected a 404 with the server's detail, and a 500 whose JSON
\* body names none with its status line.
C6_Witness ==
    /\ Settled("fetchJSON") /\ out.kind = "rejected"
    /\ \/ out.res.status = 404 /\ out.res.body = BodyBoth /\ out.res.ct = JsonType
          /\ out.message = <<"bad date">>
       \/ out.res.status = 500 /\ out.res.body = BodyObj /\ out.res.ct = JsonType
          /\ ~out.res.h2 /\ out.message = <<"500", " ", "Internal Server Error">>

\* C7: for a 2xx response fetchJSON resolves: to the parsed JSON value when
\* the response declares JSON, to null when that body does not parse, and to
\* the raw body text for every other content type.
C7_ContentNegotiation ==
    (Settled("fetchJSON") /\ Ok(out.res.status))
        => /\ out.kind = "resolved"
           /\ out.value =
                 IF out.res.ct \in {JsonType, <<"application/json", "; charset=utf-8">>}
                 THEN IF out.res.readable /\ JsonParse(out.res.body).ok
                      THEN JsonParse(out.res.body).val
                      ELSE JsNull
                 ELSE JsString(out.res.body)

\* fetchJSON resolved null for a 200 JSON response whose body is not JSON.
C7_Witness ==
    /\ Settled("fetchJSON") /\ out.res.status = 200
    /\ out.res.ct = <<"application/json", "; charset=utf-8">>
    /\ out.res.readable /\ out.res.body = BodyHtml
    /\ out.kind = "resolved" /\ out.value = JsNull

\* A step on which fetchJSON settles a call that got a 401 response.
Handles401 ==
    /\ req.kind = "sent" /\ req.adapter = "fetchJSON"
    /\ out'.kind # "none" /\ out'.res.kind = "http" /\ out'.res.status = 401

\* C9: the stored auth token is changed by no operation but logout and the
\* handling of a 401 response, and after either the store holds no token.
C9_TokenUntilLogoutOrExpiry ==
    [][/\ (logout' = logout /\ ~Handles401 => getToken(ls') = getToken(ls))
       /\ (logout = "idle" /\ logout' # "idle" => ~Truthy(getToken(ls')))
       /\ (Handles401 => ~Truthy(getToken(ls')))]_vars

\* ------------------------------------------------------------------------
\* web/app.js token store: getToken, setToken, clearToken
\* ------------------------------------------------------------------------

\* setToken(t): localStorage / sessionStorage after it.
WebSetStorage(st, t) == [st EXCEPT !["ACCESS"] = t]

\* A clearToken() that removes the key setToken() writes and no other.
WebClearStorageAccessOnly(st) == [st EXCEPT !["ACCESS"] = Null]

\* clearToken(): localStorage / sessionStorage after it; all four keys go.
WebClearStorage(st) ==
    [k \in DOMAIN st |->
        IF k \in {"ACCESS", "access_token", "TOKEN", "token"} THEN Null ELSE st[k]]

\* getToken(): the value is returned, a token found in storage is cached.
TsGet ==
    /\ got' = [kind |-> "got", value |-> WebGetToken(winAccess, ls, ss)]
    /\ winAccess' = WebGetTokenAccess(winAccess, ls, ss)
    /\ UNCHANGED <<ls, ss, lastWrite>>
    /\ StoreFrame

\* setToken(t)
TsSet(t) ==
    /\ winAccess' = t
    /\ ls' = WebSetStorage(ls, t)
    /\ ss' = WebSetStorage(ss, t)
    /\ lastWrite' = [kind |-> "set", token |-> t]
    /\ got' = NoGet
    /\ StoreFrame

\* clearToken()
TsClear ==
    /\ winAccess' = <<>>
    /\ ls' = WebClearStorage(ls)
    /\ ss' = WebClearStorage(ss)
    /\ lastWrite' = [kind |-> "clear"]
    /\ got' = NoGet
    /\ StoreFrame

\* localStorage / sessionStorage slots web/app.js reads.
Slots == ({"L"} \X SessionKeys) \cup ({"S"} \X SessionKeys)

\* Storage as earlier versions of the UI may have left it: at most
\* MaxLegacy of the eight slots hold a value (a token or the empty string).
MaxLegacy == 2

StoredValues == Tokens \cup {<<>>}

TsInit ==
    /\ \E used \in SUBSET Slots :
         /\ Cardinality(used) <= MaxLegacy
         /\ \E f \in [used -> StoredValues] :
              /\ ls = [k \in LocalKeys |->
                         IF <<"L", k>> \in used THEN f[<<"L", k>>] ELSE Null]
              /\ ss = [k \in SessionKeys |->
                         IF <<"S", k>> \in used THEN f[<<"S", k>>] ELSE Null]
    /\ winAccess = Null
    /\ lastWrite = Idle /\ got = NoGet
    /\ page \in {p \in Pages : p.search = <<>> /\ p.qtoken = Null}
    /\ href = Null /\ req = Idle /\ out = Idle /\ logout = "idle"
    /\ op = Idle
    /\ dateIn = NoDate /\ dateOut = NoDate
    /\ UtilIdle
    /\ loads = <<>> /\ view = NoView

TsNext ==
    \/ TsGet
    \/ \E t \in StoredValues : TsSet(t)
    \/ TsClear

SpecTokenStore == TsInit /\ [][TsNext]_vars

\* Some slot web/app.js reads holds a token.
AnyStored ==
    \E k \in SessionKeys : Truthy(ls[k]) \/ Truthy(ss[k])

LegacyKeys == {"access_token", "TOKEN", "token"}

\* What the claim says of a state: the last get() found a stored token
\* (canonical or legacy) exactly when there is one; it returned t if it
\* follows set(t), and the empty value if it follows clear().
TokenStoreAnswers ==
    got.kind = "got" =>
        /\ AnyStored =>
              /\ Truthy(got.value)
              /\ \E k \in SessionKeys : got.value \in {ls[k], ss[k]}
        /\ ~AnyStored => got.value = <<>>
        /\ (lastWrite.kind = "set" /\ Truthy(lastWrite.token))
              => got.value = lastWrite.token
        /\ lastWrite.kind = "clear" => got.value = <<>>

\* C8: over any sequence of get/set/clear, get() finds a token stored under
\* the canonical key or only under a legacy key; set(t) writes the canonical
\* key ACCESS only, never a legacy key; after set(t) get() returns t; after
\* clear() get() returns the empty value until the next set.
C8_TokenStoreContract ==
    [][/\ TokenStoreAnswers'
       /\ (lastWrite'.kind = "set" /\ got'.kind = "none") =>
             /\ \A k \in LegacyKeys : ls'[k] = ls[k] /\ ss'[k] = ss[k]
             /\ ls'[TOKEN_KEY] = ls[TOKEN_KEY]
             /\ ls'["ACCESS"] = lastWrite'.token]_vars

\* get() returned the token just set although a legacy key holds another one.
C8_Witness ==
    /\ got.kind = "got" /\ lastWrite.kind = "set"
    /\ got.value = TokA /\ lastWrite.token = TokA
    /\ ss["token"] = TokB

\* ------------------------------------------------------------------------
\* Dates: mondayUTC (ui/plan-week.js) and startOfWeekUTC (plan.js)
\* ------------------------------------------------------------------------
\* A Date is [day, ms]: whole days since 1970-01-01 UTC and the milliseconds
\* within the day. Months are 0-based, as in JS.

DateOf(day, ms) == [kind |-> "date", day |-> day, ms |-> ms]

\* Days since the epoch of the civil date year-month(0-based)-1, plus date-1:
\* ECMAScript MakeDay, which lets date run outside the month.
MakeDay(year, month, date) ==
    LET y   == IF month + 1 <= 2 THEN year - 1 ELSE year
        era == y \div 400
        yoe == y - era * 400
        mp  == (month + 1 + 9) % 12
        doy == (153 * mp + 2) \div 5
        doe == yoe * 365 + yoe \div 4 - yoe \div 100 + doy
    IN era * 146097 + doe - 719468 + (date - 1)

\* The civil date of a day number: [year, month (0-based), date].
CivilOf(day) ==
    LET z   == day + 719468
        era == z \div 146097
        doe == z - era * 146097
        yoe == (doe - doe \div 1460 + doe \div 36524 - doe \div 146096) \div 365
        doy == doe - (365 * yoe + yoe \div 4 - yoe \div 100)
        mp  == (5 * doy + 2) \div 153
        m   == IF mp < 10 THEN mp + 3 ELSE mp - 9
    IN [year  |-> yoe + era * 400 + (IF m <= 2 THEN 1 ELSE 0),
        month |-> m - 1,
        date  |-> doy - (153 * mp + 2) \div 5 + 1]

getUTCFullYear(d) == CivilOf(d.day).year
getUTCMonth(d) == CivilOf(d.day).month
getUTCDate(d) == CivilOf(d.day).date

\* 0 = Sunday .. 6 = Saturday; 1970-01-01 was a Thursday.
getUTCDay(d) == (d.day + 4) % 7

\* new Date(Date.UTC(year, month, date)): midnight UTC of that civil date.
DateUTC(year, month, date) == DateOf(MakeDay(year, month, date), 0)

\* d.setUTCDate(date): the date of the month is replaced, the time kept.
setUTCDate(d, date) ==
    DateOf(MakeDay(getUTCFullYear(d), getUTCMonth(d), date), d.ms)

\* The days to go back to the Sunday: a week that starts on Sunday.
WeekOffsetFromSunday(dow) == dow

\* The days to go back from a weekday to the Monday of its week.
WeekOffset(dow) == (dow + 6) % 7

mondayUTC(d) ==
    LET dt == DateUTC(getUTCFullYear(d), getUTCMonth(d), getUTCDate(d))
        offset == WeekOffset(getUTCDay(dt))
    IN setUTCDate(dt, getUTCDate(dt) - offset)

startOfWeekUTC(d) ==
    LET dt == DateUTC(getUTCFullYear(d), getUTCMonth(d), getUTCDate(d))
        off == WeekOffset(getUTCDay(dt))
    IN setUTCDate(dt, getUTCDate(dt) - off)

\* The input dates: DaySpan consecutive days from 2023-12-20, which cross a
\* year end and the leap day 2024-02-29, at the first and the last
\* millisecond of the day.
DaySpan == 80

\* Day 19711 is 2023-12-20.
InputDays == 19711..(19711 + DaySpan - 1)

\* The first and the last millisecond of a day.
InputMs == {0, 86399999}

DateInit ==
    /\ \E day \in InputDays, ms \in InputMs :
          dateIn = DateOf(day, ms)
    /\ dateOut = NoDate
    /\ ls = EmptyLocal /\ ss = EmptySession /\ winAccess = Null
    /\ page \in {p \in Pages : p.search = <<>> /\ p.qtoken = Null}
    /\ href = Null /\ req = Idle /\ out = Idle /\ logout = "idle"
    /\ lastWrite = Idle /\ got = NoGet
    /\ op = Idle
    /\ loads = <<>> /\ view = NoView
    /\ UtilIdle

CallMondayUTC ==
    /\ dateOut = NoDate
    /\ dateOut' = [mondayUTC(dateIn) EXCEPT !.kind = "mondayUTC"]
    /\ UNCHANGED dateIn
    /\ DateFrame

CallStartOfWeekUTC ==
    /\ dateOut = NoDate
    /\ dateOut' = [startOfWeekUTC(dateIn) EXCEPT !.kind = "startOfWeekUTC"]
    /\ UNCHANGED dateIn
    /\ DateFrame

DateNext == CallMondayUTC \/ CallStartOfWeekUTC

SpecDates == DateInit /\ [][DateNext]_vars

\* Day 19723, 2024-01-01, was a Monday.
IsMonday(day) == (day - 19723) % 7 = 0

\* The weekday of a day number, 0 = Sunday, counted from a known Sunday.
WeekdayOf(day) == (day - 19722) % 7

\* C10: for an input on each of the 7 weekdays, mondayUTC / startOfWeekUTC
\* returns a Monday that is at most 6 days before the input's day and never
\* after it: the input's day minus ((day_of_week + 6) mod 7) days.
C10_StartOfWeekIsMonday ==
    dateOut # NoDate =>
        /\ IsMonday(dateOut.day)
        /\ dateOut.day <= dateIn.day
        /\ dateIn.day - dateOut.day <= 6
        /\ dateOut.day = dateIn.day - ((WeekdayOf(dateIn.day) + 6) % 7)

\* startOfWeek of a Sunday late in the day, in the first week of a month:
\* the Monday six days earlier, in the month before.
C10_Witness ==
    /\ dateOut # NoDate
    /\ WeekdayOf(dateIn.day) = 0 /\ dateIn.ms = 86399999
    /\ dateOut.day = dateIn.day - 6
    /\ CivilOf(dateOut.day).month # CivilOf(dateIn.day).month

\* ------------------------------------------------------------------------
\* Endpoint fallback chains: saveUser and fetchStravaStatus (ui/profile.js,
\* ui/activities.js)
\* ------------------------------------------------------------------------
\* op.log lists the requests of the running operation that have settled, in
\* the order sent; op.pending is the endpoint of the one in flight.

\* String(e.message || '').includes(code), code a status code's digits.
Includes(message, code) ==
    message # Null /\ \E i \in 1..Len(message) : message[i] = code

Running(name, pc, endpoint, log) ==
    [kind |-> "op", name |-> name, pc |-> pc, pending |-> endpoint, log |-> log]

\* The log with the settled request and what fetchJSON made of it.
Logged(o, outcome) ==
    Append(o.log, [endpoint |-> o.pending, status |-> outcome.res.status,
                   kind |-> outcome.kind, message |-> outcome.message])

\* The operation sends its next request.
Continue(o, outcome, pc, endpoint) ==
    Running(o.name, pc, endpoint, Logged(o, outcome))

\* The operation ends: pc is "done" or "failed" (it threw to its caller).
Finish(o, outcome, pc) == Running(o.name, pc, Null, Logged(o, outcome))

\* location.href after a call of fetchJSON settled.
HrefAfter(outcome) == IF outcome.href # Null THEN outcome.href ELSE href

\* saveUser up to its first await: PUT /users/me.
SaveUserStart ==
    /\ op = Idle
    /\ op' = Running("saveUser", "put", <<"PUT /users/me">>, <<>>)
    /\ UNCHANGED href
    /\ OpFrame

\* PUT /users/me settled: on an error naming 405 POST /users/me/update is
\* tried, any other error is thrown; on success today's plan is refreshed.
SaveUserPutSettles(res) ==
    LET outcome == fetchJSONOutcome(res) IN
    /\ op.kind = "op" /\ op.name = "saveUser" /\ op.pc = "put"
    /\ op' = IF outcome.kind = "resolved"
             THEN Continue(op, outcome, "refresh", <<"GET /v1/plan/today">>)
             ELSE IF Includes(outcome.message, "405")
             THEN Continue(op, outcome, "update", <<"POST /users/me/update">>)
             ELSE Finish(op, outcome, "failed")
    /\ href' = HrefAfter(outcome)
    /\ OpFrame

\* POST /users/me/update settled: on any error POST /users/me is tried.
SaveUserUpdateSettles(res) ==
    LET outcome == fetchJSONOutcome(res) IN
    /\ op.kind = "op" /\ op.name = "saveUser" /\ op.pc = "update"
    /\ op' = IF outcome.kind = "resolved"
             THEN Continue(op, outcome, "refresh", <<"GET /v1/plan/today">>)
             ELSE Continue(op, outcome, "post", <<"POST /users/me">>)
    /\ href' = HrefAfter(outcome)
    /\ OpFrame

\* POST /users/me settled: its error is thrown.
SaveUserPostSettles(res) ==
    LET outcome == fetchJSONOutcome(res) IN
    /\ op.kind = "op" /\ op.name = "saveUser" /\ op.pc = "post"
    /\ op' = IF outcome.kind = "resolved"
             THEN Continue(op, outcome, "refresh", <<"GET /v1/plan/today">>)
             ELSE Finish(op, outcome, "failed")
    /\ href' = HrefAfter(outcome)
    /\ OpFrame

\* The refresh of today's plan settled: its error is swallowed.
SaveUserRefreshSettles(res) ==
    LET outcome == fetchJSONOutcome(res) IN
    /\ op.kind = "op" /\ op.name = "saveUser" /\ op.pc = "refresh"
    /\ op' = Finish(op, outcome, "done")
    /\ href' = HrefAfter(outcome)
    /\ OpFrame

\* fetchStravaStatus up to its first await: /oauth/strava/status.
StravaStatusStart ==
    /\ op = Idle
    /\ op' = Running("fetchStravaStatus", "status", <<"GET /oauth/strava/status">>, <<>>)
    /\ UNCHANGED href
    /\ OpFrame

\* /oauth/strava/status settled: on an error naming 404 the legacy
\* /oauth/status is tried, any other error is thrown.
StravaStatusSettles(res) ==
    LET outcome == fetchJSONOutcome(res) IN
    /\ op.kind = "op" /\ op.name = "fetchStravaStatus" /\ op.pc = "status"
    /\ op' = IF outcome.kind = "resolved" THEN Finish(op, outcome, "done")
             ELSE IF Includes(outcome.message, "404")
             THEN Continue(op, outcome, "legacy", <<"GET /oauth/status">>)
             ELSE Finish(op, outcome, "failed")
    /\ href' = HrefAfter(outcome)
    /\ OpFrame

\* /oauth/status settled: on an error the first error is thrown.
StravaLegacySettles(res) ==
    LET outcome == fetchJSONOutcome(res) IN
    /\ op.kind = "op" /\ op.name = "fetchStravaStatus" /\ op.pc = "legacy"
    /\ op' = Finish(op, outcome, IF outcome.kind = "resolved" THEN "done" ELSE "failed")
    /\ href' = HrefAfter(outcome)
    /\ OpFrame

\* The responses the backend gives these endpoints.
OpResponses ==
    { r \in [ kind : {"http"},
              status : Statuses \cup {405},
              h2 : BOOLEAN,
              ct : {JsonType, <<"text/plain">>},
              body : {BodyEmpty, BodyObj, BodyDetail},
              readable : {TRUE} ] :
        Ok(r.status) => ~r.h2 } \cup {NetworkError}

OpInit ==
    /\ op = Idle
    /\ href = Null
    /\ page \in {p \in Pages : p.qtoken = Null}
    /\ ls \in {EmptyLocal, [EmptyLocal EXCEPT ![TOKEN_KEY] = TokA]}
    /\ ss = EmptySession /\ winAccess = Null
    /\ req = Idle /\ out = Idle /\ logout = "idle"
    /\ lastWrite = Idle /\ got = NoGet
    /\ dateIn = NoDate /\ dateOut = NoDate
    /\ UtilIdle
    /\ loads = <<>> /\ view = NoView

OpNext ==
    \/ SaveUserStart
    \/ \E r \in OpResponses : SaveUserPutSettles(r)
    \/ \E r \in OpResponses : SaveUserUpdateSettles(r)
    \/ \E r \in OpResponses : SaveUserPostSettles(r)
    \/ \E r \in OpResponses : SaveUserRefreshSettles(r)
    \/ StravaStatusStart
    \/ \E r \in OpResponses : StravaStatusSettles(r)
    \/ \E r \in OpResponses : StravaLegacySettles(r)

SpecOps == OpInit /\ [][OpNext]_vars

\* C4: once a request of a user operation has failed with the Unauthorized
\* (401) error the operation sends no further request: the fallback chains
\* of saveUser and fetchStravaStatus stop at the first Unauthorized failure.
C4_NoRequestAfterUnauthorized ==
    op.kind = "op" =>
        \A i \in 1..Len(op.log) :
            op.log[i].status = 401 => (i = Len(op.log) /\ op.pending = Null)

\* ------------------------------------------------------------------------
\* Asynchronously loaded views: the week plan (ui/plan-week.js and the plan
\* page), the activity summary and the activity table (ui/activities.js)
\* ------------------------------------------------------------------------
\* loads[a] is the a-th load triggered on the page; a plan, a card, the KPIs
\* and the rows carry the number of the load whose responses they came from.

\* The days of a week plan.
Days == 7

\* The loads that may be triggered on one page.
MaxLoads == 2

\* A load that has sent `sent` requests and has got no response yet.
Load(fn, param, sent) ==
    [fn |-> fn, param |-> param, sent |-> sent,
     fulfilled |-> 0, nullAt |-> 0, pc |-> "flight"]

\* The load after one more of its fetches was fulfilled, with the plan of day
\* j or, isNull, with null (a 2xx JSON body that does not parse). nullAt is
\* the first day whose plan is null, 0 when none is.
Fulfilled(load, isNull, j) ==
    [load EXCEPT !.fulfilled = @ + 1,
                 !.nullAt = IF isNull /\ (@ = 0 \/ j < @) THEN j ELSE @]

\* Rendering as soon as one day has arrived.
AnyFetched(load) == load.fulfilled >= 1

\* Promise.all(dates.map(fetchDayPlan)) resolves, and the loop over the days
\* ends, when the plan of every day has been fetched.
AllFetched(load) == load.fulfilled = Days

\* One more day is asked for while days remain (the plan page's loop).
StillToFetch(load) == load.fulfilled < Days

\* The plan list of load id once its fetches were fulfilled.
PlansOf(id, load) == [i \in 1..load.fulfilled |-> [load |-> id, day |-> i]]

\* for (const p of plans) renderDayCard(grid, p); window.__glyco_weekPlans =
\* plans; ok('Week loaded.'). renderDayCard throws at plan.date on a null
\* plan: the cards before it stay, the list is not assigned, err() is shown.
RenderWeek(v, id, load) ==
    IF load.nullAt = 0
    THEN [v EXCEPT !.grid = @ \o PlansOf(id, load),
                   !.weekPlans = [set |-> TRUE, by |-> id, plans |-> PlansOf(id, load)],
                   !.status = "Week loaded."]
    ELSE [v EXCEPT !.grid = @ \o SubSeq(PlansOf(id, load), 1, load.nullAt - 1),
                   !.status = "error"]

\* The days whose plan the backend may answer with a body that does not
\* parse.
NullDays == {2, 5}

\* The start dates the week form may hold: none, or a date.
WeekStarts == {<<>>, <<"2024-01-01">>}

LoadWeekClearsFirst(start) ==
    /\ view.doc = "plan-week"
    /\ IF ~Truthy(start)
       THEN /\ view' = [view EXCEPT !.grid = <<>>, !.status = "Pick a start date."]
            /\ UNCHANGED loads
       ELSE /\ Len(loads) < MaxLoads
            /\ loads' = Append(loads, Load("loadWeek", start, Days))
            /\ view' = [view EXCEPT !.grid = <<>>, !.status = ""]
    /\ ViewFrame

\* loadWeek of ui/plan-week.js up to its await: without a start date it shows
\* 'Pick a start date.', else it empties the grid and sends the 7 requests.
LoadWeek(start) ==
    /\ view.doc = "plan-week"
    /\ IF ~Truthy(start)
       THEN /\ view' = [view EXCEPT !.status = "Pick a start date."]
            /\ UNCHANGED loads
       ELSE /\ Len(loads) < MaxLoads
            /\ loads' = Append(loads, Load("loadWeek", start, Days))
            /\ view' = [view EXCEPT !.grid = <<>>, !.status = ""]
    /\ ViewFrame

\* One day-plan fetch of load a is fulfilled; it is the fetch of any day j
\* not fulfilled before. After the last one loadWeek renders and stores.
DayPlanFulfils(a, isNull, j) ==
    /\ view.doc = "plan-week"
    /\ a \in DOMAIN loads /\ loads[a].pc = "flight"
    /\ IF isNull THEN j \in NullDays /\ j # loads[a].nullAt ELSE j = 1
    /\ LET load == Fulfilled(loads[a], isNull, j) IN
         IF AllFetched(load)
         THEN /\ view' = RenderWeek(view, a, load)
              /\ loads' = [loads EXCEPT ![a] =
                    [load EXCEPT !.pc = IF load.nullAt = 0 THEN "done" ELSE "failed"]]
         ELSE /\ loads' = [loads EXCEPT ![a] = load]
              /\ UNCHANGED view
    /\ ViewFrame

\* One day-plan fetch of load a is rejected: Promise.all rejects at once and
\* the catch block shows the error.
DayPlanRejects(a) ==
    /\ view.doc = "plan-week"
    /\ a \in DOMAIN loads /\ loads[a].pc = "flight"
    /\ loads' = [loads EXCEPT ![a].pc = "failed"]
    /\ view' = [view EXCEPT !.status = "error"]
    /\ ViewFrame

\* loadWeek of the plan page up to its first await: one request is sent.
PlanLoadWeek(start) ==
    /\ view.doc = "plan"
    /\ IF ~Truthy(start)
       THEN /\ view' = [view EXCEPT !.status = "Pick a start date."]
            /\ UNCHANGED loads
       ELSE /\ Len(loads) < MaxLoads
            /\ loads' = Append(loads, Load("loadWeek", start, 1))
            /\ view' = [view EXCEPT !.grid = <<>>, !.status = "Loading"]
    /\ ViewFrame

\* The plan page's fetch of the next day is fulfilled: the next day is asked
\* for, or after the last day the week is rendered and stored.
PlanDayFulfils(a, isNull) ==
    /\ view.doc = "plan"
    /\ a \in DOMAIN loads /\ loads[a].pc = "flight"
    /\ isNull => (loads[a].fulfilled + 1) \in NullDays
    /\ LET load == Fulfilled(loads[a], isNull, loads[a].fulfilled + 1) IN
         IF StillToFetch(load)
         THEN /\ loads' = [loads EXCEPT ![a] = [load EXCEPT !.sent = @ + 1]]
              /\ UNCHANGED view
         ELSE /\ view' = RenderWeek(view, a, load)
              /\ loads' = [loads EXCEPT ![a] =
                    [load EXCEPT !.pc = IF load.nullAt = 0 THEN "done" ELSE "failed"]]
    /\ ViewFrame

\* The plan page's fetch of the next day is rejected: the loop is left and
\* the status line shows the error.
PlanDayRejects(a) ==
    /\ view.doc = "plan"
    /\ a \in DOMAIN loads /\ loads[a].pc = "flight"
    /\ loads' = [loads EXCEPT ![a].pc = "failed"]
    /\ view' = [view EXCEPT !.status = "error"]
    /\ ViewFrame

\* The date ranges the summary form may hold.
Ranges == {<<"last 30 days">>, <<"last 7 days">>}

\* loadSummary up to its await: the range is read and /activities is asked.
LoadSummary(range) ==
    /\ view.doc = "activities"
    /\ Len(loads) < MaxLoads
    /\ loads' = Append(loads, Load("loadSummary", range, 1))
    /\ UNCHANGED view
    /\ ViewFrame

\* The summary's request settled: the KPIs, donut and table show the
\* aggregate over the load's range, or zeros and nothing when it failed.
SummarySettles(a, ok) ==
    /\ view.doc = "activities"
    /\ a \in DOMAIN loads /\ loads[a].fn = "loadSummary" /\ loads[a].pc = "flight"
    /\ loads' = [loads EXCEPT ![a] = IF ok THEN [Fulfilled(@, FALSE, 1) EXCEPT !.pc = "done"]
                                          ELSE [@ EXCEPT !.pc = "failed"]]
    /\ view' = [view EXCEPT !.kpis = [by |-> a, range |-> loads[a].param,
                                      state |-> IF ok THEN "data" ELSE "zero"]]
    /\ ViewFrame

\* The page of the activity table a click asks for: Prev (only past page 1),
\* Next, or the page as it is when the document is loaded.
PageAfter(btn, p) ==
    CASE btn = "prev" -> p - 1
      [] btn = "next" -> p + 1
      [] OTHER -> p

\* A click handler and loadActivityPage up to its await: page is set and
\* that page of /activities is asked.
LoadActivityPage(btn) ==
    /\ view.doc = "activities"
    /\ Len(loads) < MaxLoads
    /\ btn = "prev" => view.actPage > 1
    /\ loads' = Append(loads, Load("loadActivityPage", <<PageAfter(btn, view.actPage)>>, 1))
    /\ view' = [view EXCEPT !.actPage = PageAfter(btn, @), !.status = ""]
    /\ ViewFrame

\* The totals the backend may report.
Totals == {0, 40}

\* The table's request settled: the rows of the page asked are rendered and
\* total is set, or the error is shown.
ActivityPageSettles(a, ok, n) ==
    /\ view.doc = "activities"
    /\ a \in DOMAIN loads /\ loads[a].fn = "loadActivityPage" /\ loads[a].pc = "flight"
    /\ IF ok
       THEN /\ loads' = [loads EXCEPT ![a] = [Fulfilled(@, FALSE, 1) EXCEPT !.pc = "done"]]
            /\ view' = [view EXCEPT !.rows = [by |-> a, page |-> loads[a].param[1]],
                                    !.total = n]
       ELSE /\ n = 0
            /\ loads' = [loads EXCEPT ![a].pc = "failed"]
            /\ view' = [view EXCEPT !.status = "error"]
    /\ ViewFrame

LoadsInit ==
    /\ loads = <<>>
    /\ view \in {BlankView(doc) : doc \in {"plan-week", "plan", "activities"}}
    /\ ls = [EmptyLocal EXCEPT ![TOKEN_KEY] = TokA]
    /\ ss = EmptySession /\ winAccess = Null
    /\ page \in {p \in Pages : p.search = <<>> /\ p.qtoken = Null}
    /\ href = Null /\ req = Idle /\ out = Idle /\ logout = "idle"
    /\ lastWrite = Idle /\ got = NoGet
    /\ op = Idle
    /\ dateIn = NoDate /\ dateOut = NoDate
    /\ UtilIdle

LoadsNext ==
    \/ \E start \in WeekStarts : LoadWeek(start)
    \/ \E a \in 1..MaxLoads, isNull \in BOOLEAN, j \in {1} \cup NullDays : DayPlanFulfils(a, isNull, j)
    \/ \E a \in 1..MaxLoads : DayPlanRejects(a)
    \/ \E start \in WeekStarts : PlanLoadWeek(start)
    \/ \E a \in 1..MaxLoads, isNull \in BOOLEAN : PlanDayFulfils(a, isNull)
    \/ \E a \in 1..MaxLoads : PlanDayRejects(a)
    \/ \E range \in Ranges : LoadSummary(range)
    \/ \E a \in 1..MaxLoads, ok \in BOOLEAN : SummarySettles(a, ok)
    \/ \E btn \in {"init", "prev", "next"} : LoadActivityPage(btn)
    \/ \E a \in 1..MaxLoads, ok \in BOOLEAN, n \in Totals : ActivityPageSettles(a, ok, n)

SpecLoads == LoadsInit /\ [][LoadsNext]_vars

\* Load a ends in this step: its last response arrived and was handled.
Completes(a) == a \in DOMAIN loads /\ loads[a].pc = "flight" /\ loads'[a].pc # "flight"

\* A load of the same view triggered after load a has already rendered.
NewerRendered(a) ==
    \E b \in DOMAIN loads : b > a /\ loads[b].fn = loads[a].fn /\ loads[b].pc = "done"

\* The rendered and stored state of the views.
Rendered(v) == <<v.grid, v.weekPlans, v.kpis, v.rows, v.total>>

\* C1: when load B of a view was triggered while load A was in flight and
\* A's response arrives after B's, the completion of A changes neither the
\* rendered nor the stored state (week grid, window.__glyco_weekPlans,
\* summary KPIs and table, activity rows, total): B's state stays.
C1_StaleLoadChangesNothing ==
    [][\A a \in 1..MaxLoads :
          (Completes(a) /\ NewerRendered(a)) => Rendered(view') = Rendered(view)]_vars

\* The cards of load a in the week grid.
CardsOf(a) == {i \in DOMAIN view.grid : view.grid[i].load = a}

\* C2: a loadWeek operation renders day cards and stores its plan list only
\* after all 7 of its day-plan fetches were fulfilled; an operation one of
\* whose fetches failed has no card in the grid and assigned no plan list;
\* the stored plan list has 7 entries.
C2_WeekOnlyAfterAllDays ==
    /\ \A a \in DOMAIN loads :
          (CardsOf(a) # {} \/ (view.weekPlans.set /\ view.weekPlans.by = a))
              => (loads[a].fulfilled = Days /\ loads[a].pc # "flight")
    /\ view.weekPlans.set => Len(view.weekPlans.plans) = Days

\* A week was rendered and stored while another load of the page failed on
\* one of its fetches after some of its days had arrived.
C2_Witness ==
    /\ view.weekPlans.set /\ CardsOf(view.weekPlans.by) # {}
    /\ \E a \in DOMAIN loads :
          loads[a].pc = "failed" /\ loads[a].fulfilled > 0 /\ loads[a].fulfilled < Days

\* ------------------------------------------------------------------------
\* Week ranges: weekDates (ui/plan-week.js), datesOfWeek (plan page) and the
\* dates loadWeek asks for
\* ------------------------------------------------------------------------
\* An ISO date YYYY-MM-DD is the tuple of its three numbers, the month
\* counted from 1: tuples of four-digit years compare as the strings do.

\* fmt.dateISO of a Date: toISOString().slice(0, 10).
dateISO(d) ==
    LET c == CivilOf(d.day) IN <<c.year, c.month + 1, c.date>>

\* new Date(startStr + 'T00:00:00Z')
ParseStart(iso) == DateOf(MakeDay(iso[1], iso[2] - 1, iso[3]), 0)

\* The weekday where the day of the month is meant.
WeekDateFromWeekday(start, i) == setUTCDate(start, getUTCDay(start) + i)

\* const d = new Date(startUtc); d.setUTCDate(startUtc.getUTCDate() + i)
WeekDate(start, i) == setUTCDate(start, getUTCDate(start) + i)

weekDates(startUtc) == [k \in 1..Days |-> dateISO(WeekDate(startUtc, k - 1))]

datesOfWeek(s) == [k \in 1..Days |-> dateISO(WeekDate(s, k - 1))]

\* weekDates(mondayUTC(d)) for the date d.
CallWeekDates ==
    /\ week = NoCall
    /\ week' = [kind |-> "weekDates", field |-> <<>>,
                dates |-> weekDates(mondayUTC(dateIn))]
    /\ UNCHANGED <<storageVars, httpVars, storeVars, opVars, dateVars, viewVars,
                   gro, agg, sport, moreVars>>

\* datesOfWeek(startOfWeekUTC(d)) for the date d.
CallDatesOfWeek ==
    /\ week = NoCall
    /\ week' = [kind |-> "datesOfWeek", field |-> <<>>,
                dates |-> datesOfWeek(startOfWeekUTC(dateIn))]
    /\ UNCHANGED <<storageVars, httpVars, storeVars, opVars, dateVars, viewVars,
                   gro, agg, sport, moreVars>>

\* The week-start field when loadWeek reads it: the date the user picked, or
\* the Monday of the current week that setDefaults wrote into the empty field.
WeekStartField(picked, now) ==
    IF picked THEN dateISO(now) ELSE dateISO(mondayUTC(now))

\* The week-start field of the plan page, filled the same way at page load.
PlanWeekStartField(picked, now) ==
    IF picked THEN dateISO(now) ELSE dateISO(startOfWeekUTC(now))

\* loadWeek of ui/plan-week.js: the dates whose plans it fetches.
LoadWeekRange(picked) ==
    /\ week = NoCall
    /\ week' = [kind |-> "loadWeek", field |-> WeekStartField(picked, dateIn),
                dates |-> weekDates(ParseStart(WeekStartField(picked, dateIn)))]
    /\ UNCHANGED <<storageVars, httpVars, storeVars, opVars, dateVars, viewVars,
                   gro, agg, sport, moreVars>>

\* loadWeek of the plan page: the dates whose plans it fetches.
PlanLoadWeekRange(picked) ==
    /\ week = NoCall
    /\ week' = [kind |-> "planLoadWeek", field |-> PlanWeekStartField(picked, dateIn),
                dates |-> datesOfWeek(ParseStart(PlanWeekStartField(picked, dateIn)))]
    /\ UNCHANGED <<storageVars, httpVars, storeVars, opVars, dateVars, viewVars,
                   gro, agg, sport, moreVars>>

WeekInit == DateInit

WeekNext ==
    \/ CallWeekDates
    \/ CallDatesOfWeek
    \/ \E picked \in BOOLEAN : LoadWeekRange(picked)
    \/ \E picked \in BOOLEAN : PlanLoadWeekRange(picked)

SpecWeek == WeekInit /\ [][WeekNext]_vars

\* The list holds the date.
Contains(list, x) == \E k \in 1..Len(list) : list[k] = x

\* C11: for every date d, the 7-element list datesOfWeek(startOfWeek(d))
\* contains dateISO(d).
C11_WeekContainsDate ==
    week.kind \in {"weekDates", "datesOfWeek"} =>
        /\ Len(week.dates) = 7
        /\ Contains(week.dates, dateISO(dateIn))

\* The week of a Sunday late in the day at the start of a month: the Sunday
\* is the last date of a list that began in the month before.
C11_Witness ==
    /\ week.kind = "weekDates"
    /\ dateIn.ms > 0
    /\ week.dates[7] = dateISO(dateIn)
    /\ week.dates[1][2] # week.dates[7][2]

\* The day number of an ISO date, by counting from 2023-12-01 (day 19692)
\* through the months December 2023 to March 2024 (31, 31, 29, 31 days).
DayNumber(iso) ==
    CASE iso[1] = 2023 /\ iso[2] = 12 -> 19692 + iso[3] - 1
      [] iso[1] = 2024 /\ iso[2] = 1  -> 19692 + 31 + iso[3] - 1
      [] iso[1] = 2024 /\ iso[2] = 2  -> 19692 + 62 + iso[3] - 1
      [] iso[1] = 2024 /\ iso[2] = 3  -> 19692 + 91 + iso[3] - 1
      [] OTHER -> 0

\* C12: every week range loadWeek fetches is a WeekRange: exactly 7
\* consecutive calendar dates, each one day after the previous also across
\* month and year ends, the first of them a Monday, for every value of the
\* week-start field.
C12_LoadWeekFetchesWeekRange ==
    week.kind \in {"loadWeek", "planLoadWeek"} =>
        /\ Len(week.dates) = 7
        /\ \A k \in 1..6 : DayNumber(week.dates[k + 1]) = DayNumber(week.dates[k]) + 1
        /\ IsMonday(DayNumber(week.dates[1]))

\* ------------------------------------------------------------------------
\* Weekly grocery list: aggregateIngredients, exportTxt, exportCsv
\* (ui/plan-week.js) and buildCombinedGrocery (plan page)
\* ------------------------------------------------------------------------
\* An ingredient string is a sequence of pieces: words, the blank " " and the
\* double quote. A Map is the sequence of its [key, count] entries in
\* insertion order. An optional array is [has, items].

Absent == [has |-> FALSE, items |-> <<>>]
Some(items) == [has |-> TRUE, items |-> items]

\* String.prototype.trim: the blanks at both ends go, those inside stay.
RECURSIVE trimStart(_)
trimStart(str) ==
    IF Len(str) > 0 /\ Head(str) = " " THEN trimStart(Tail(str)) ELSE str

RECURSIVE trimEnd(_)
trimEnd(str) ==
    IF Len(str) > 0 /\ str[Len(str)] = " "
    THEN trimEnd(SubSeq(str, 1, Len(str) - 1)) ELSE str

trim(str) == trimEnd(trimStart(str))

\* The position of key among the entries, 0 when it has none.
EntryOf(counts, key) ==
    IF \E i \in 1..Len(counts) : counts[i].key = key
    THEN CHOOSE i \in 1..Len(counts) : counts[i].key = key
    ELSE 0

\* A count that starts again at 1 on every occurrence.
CountKeyOnce(counts, key) ==
    IF EntryOf(counts, key) = 0
    THEN Append(counts, [key |-> key, count |-> 1])
    ELSE [counts EXCEPT ![EntryOf(counts, key)].count = 1]

\* counts.set(key, (counts.get(key) || 0) + 1): a new key goes last, a key
\* already there keeps its place.
CountKey(counts, key) ==
    IF EntryOf(counts, key) = 0
    THEN Append(counts, [key |-> key, count |-> 1])
    ELSE [counts EXCEPT ![EntryOf(counts, key)].count = @ + 1]

\* const key = (raw || '').trim(); if (!key) continue; counts.set(...)
AddRaw(counts, raw) ==
    LET key == trim(Or(raw, <<>>)) IN
    IF ~Truthy(key) THEN counts ELSE CountKey(counts, key)

RECURSIVE AddRaws(_, _)
AddRaws(counts, raws) ==
    IF Len(raws) = 0 THEN counts
    ELSE AddRaws(AddRaw(counts, Head(raws)), Tail(raws))

\* for (const m of (p?.meals || [])) if (Array.isArray(m.ingredients)) ...
RECURSIVE AddMeals(_, _)
AddMeals(counts, meals) ==
    IF Len(meals) = 0 THEN counts
    ELSE AddMeals(IF Head(meals).ingredients.has
                  THEN AddRaws(counts, Head(meals).ingredients.items)
                  ELSE counts,
                  Tail(meals))

\* aggregateIngredients of ui/plan-week.js: the meals' ingredients are counted.
RECURSIVE aggregateIngredientsFrom(_, _)
aggregateIngredientsFrom(counts, plans) ==
    IF Len(plans) = 0 THEN counts
    ELSE aggregateIngredientsFrom(AddMeals(counts, Head(plans).meals), Tail(plans))

aggregateIngredients(plans) == aggregateIngredientsFrom(<<>>, plans)

\* The items of buildCombinedGrocery of the plan page: the entries of
\* (p.grocery_list || []) are counted.
RECURSIVE combinedItemsFrom(_, _)
combinedItemsFrom(items, plans) ==
    IF Len(plans) = 0 THEN items
    ELSE combinedItemsFrom(AddRaws(items, Head(plans).grocery_list.items), Tail(plans))

combinedItems(plans) == combinedItemsFrom(<<>>, plans)

\* `${v}` for a count.
Decimal(v) == <<"1", "2", "3", "4", "5", "6", "7", "8", "9">>[v]

\* lines.join(sep)
RECURSIVE Join(_, _)
Join(lines, sep) ==
    IF Len(lines) = 0 THEN <<>>
    ELSE IF Len(lines) = 1 THEN lines[1]
    ELSE lines[1] \o <<sep>> \o Join(Tail(lines), sep)

\* A line that shows the count of every item.
TxtLineAlwaysCount(k, v) == <<"- ">> \o k \o <<"  x", Decimal(v)>>

\* v>1 ? `- ${k}  x${v}` : `- ${k}`
TxtLine(k, v) ==
    IF v > 1 THEN <<"- ">> \o k \o <<"  x", Decimal(v)>> ELSE <<"- ">> \o k

\* k.replace(/"/g, '""')
RECURSIVE DoubleQuotes(_)
DoubleQuotes(k) ==
    IF Len(k) = 0 THEN <<>>
    ELSE (IF Head(k) = "\"" THEN <<"\"", "\"">> ELSE <<Head(k)>>) \o DoubleQuotes(Tail(k))

\* A row whose item is quoted as it is.
CsvRowUnescaped(k, v) == <<"\"">> \o k \o <<"\"", ",", Decimal(v)>>

\* '"' + k.replace(/"/g, '""') + '"', then `${safe},${v}`
CsvRow(k, v) == <<"\"">> \o DoubleQuotes(k) \o <<"\"", ",", Decimal(v)>>

\* exportTxt: the text handed to download().
exportTxt(plans) ==
    LET map == aggregateIngredients(plans) IN
    Join([i \in 1..Len(map) |-> TxtLine(map[i].key, map[i].count)], "\n")

\* exportCsv: the text handed to download().
exportCsv(plans) ==
    LET map == aggregateIngredients(plans) IN
    Join(<<<<"item,count">>>> \o [i \in 1..Len(map) |-> CsvRow(map[i].key, map[i].count)],
         "\n")

\* buildCombinedGrocery(format) of the plan page.
buildCombinedGrocery(plans, format) ==
    LET items == combinedItems(plans)
        Safe(k) == <<"\"">> \o DoubleQuotes(k) \o <<"\"">>
    IN IF format = "csv"
       THEN Join(<<<<"item,count">>>> \o
                 [i \in 1..Len(items) |->
                     Safe(items[i].key) \o <<",", Decimal(items[i].count)>>], "\n")
       ELSE Join([i \in 1..Len(items) |->
                     IF items[i].count > 1
                     THEN <<"- ">> \o items[i].key \o <<"  x", Decimal(items[i].count)>>
                     ELSE <<"- ">> \o items[i].key], "\n")

\* The ingredient strings the backend may send: two spellings of eggs, one
\* with a blank after it, milk, a blank string, null, an item with quotes.
Ingredients ==
    { <<"Eggs">>, <<"eggs", " ">>, <<"Milk">>, <<" ">>, Null,
      <<" ", "Item", " ", "\"", "A", "\"">> }

\* The longest ingredient list of the model.
MaxItems == 3

ItemLists == UNION {[1..n -> Ingredients] : n \in 0..MaxItems}
ShortLists == UNION {[1..n -> Ingredients] : n \in 0..1}

Plan(grocery_list, meals) == [grocery_list |-> grocery_list, meals |-> meals]
Meal(ingredients) == [ingredients |-> ingredients]

\* The week plans built from two ingredient lists.
PlansOfShape(shape, a, b) ==
    CASE shape = "both"    -> << Plan(Some(a), << Meal(Some(b)) >>) >>
      [] shape = "swapped" -> << Plan(Some(b), << Meal(Some(a)) >>) >>
      [] shape = "split"   -> << Plan(Some(a), <<>>), Plan(Absent, << Meal(Some(b)) >>) >>
      [] shape = "meals"   -> << Plan(Absent, << Meal(Some(a)), Meal(Absent), Meal(Some(b)) >>) >>
      [] OTHER             -> << Plan(Some(a), <<>>), Plan(Some(b), <<>>) >>

Shapes == {"both", "swapped", "split", "meals", "lists"}

GroInit ==
    /\ \E shape \in Shapes, a \in ItemLists, b \in ShortLists :
          gro = [kind |-> "plans", plans |-> PlansOfShape(shape, a, b),
                 counts |-> <<>>, out |-> <<>>]
    /\ week = NoCall /\ agg = NoCall /\ sport = NoCall
    /\ unit = NoCall /\ dest = NoCall /\ form = NoCall /\ sync = NoCall /\ wk = NoCall
    /\ dateIn = NoDate /\ dateOut = NoDate
    /\ ls = EmptyLocal /\ ss = EmptySession /\ winAccess = Null
    /\ page \in {p \in Pages : p.search = <<>> /\ p.qtoken = Null}
    /\ href = Null /\ req = Idle /\ out = Idle /\ logout = "idle"
    /\ lastWrite = Idle /\ got = NoGet
    /\ op = Idle
    /\ loads = <<>> /\ view = NoView

GroFrame == UNCHANGED <<storageVars, httpVars, storeVars, opVars, dateVars, viewVars,
                        week, agg, sport, moreVars>>

CallAggregateIngredients ==
    /\ gro.kind = "plans"
    /\ gro' = [gro EXCEPT !.kind = "aggregateIngredients",
                          !.counts = aggregateIngredients(gro.plans)]
    /\ GroFrame

CallExportTxt ==
    /\ gro.kind = "plans"
    /\ gro' = [gro EXCEPT !.kind = "exportTxt",
                          !.counts = aggregateIngredients(gro.plans),
                          !.out = exportTxt(gro.plans)]
    /\ GroFrame

CallExportCsv ==
    /\ gro.kind = "plans"
    /\ gro' = [gro EXCEPT !.kind = "exportCsv",
                          !.counts = aggregateIngredients(gro.plans),
                          !.out = exportCsv(gro.plans)]
    /\ GroFrame

CallBuildCombinedGrocery(format) ==
    /\ gro.kind = "plans"
    /\ gro' = [gro EXCEPT !.kind = "buildCombinedGrocery " \o format,
                          !.counts = combinedItems(gro.plans),
                          !.out = buildCombinedGrocery(gro.plans, format)]
    /\ GroFrame

GroNext ==
    \/ CallAggregateIngredients
    \/ CallExportTxt
    \/ CallExportCsv
    \/ \E format \in {"txt", "csv"} : CallBuildCombinedGrocery(format)

SpecGrocery == GroInit /\ [][GroNext]_vars

\* The sequences of a sequence, one after the other.
RECURSIVE Concat(_)
Concat(seqs) == IF Len(seqs) = 0 THEN <<>> ELSE Head(seqs) \o Concat(Tail(seqs))

\* The ingredients of the meals of a plan, flattened.
MealRaws(p) == Concat([i \in 1..Len(p.meals) |-> p.meals[i].ingredients.items])

\* The ingredient strings the function that ran was given, in order.
GroceryInputs ==
    IF gro.kind \in {"aggregateIngredients", "exportTxt", "exportCsv"}
    THEN Concat([i \in 1..Len(gro.plans) |-> MealRaws(gro.plans[i])])
    ELSE Concat([i \in 1..Len(gro.plans) |-> gro.plans[i].grocery_list.items])

\* The first position of x in a list that holds it.
FirstAt(list, x) ==
    CHOOSE i \in 1..Len(list) : list[i] = x /\ \A j \in 1..(i - 1) : list[j] # x

\* counts is the ordered count of the non-empty trimmed inputs.
IsCountOf(counts, inputs) ==
    \E t \in {[i \in 1..Len(inputs) |-> trim(Or(inputs[i], <<>>))]} :
    /\ {counts[i].key : i \in 1..Len(counts)} = {t[i] : i \in 1..Len(t)} \ {<<>>}
    /\ \A i, j \in 1..Len(counts) : i # j => counts[i].key # counts[j].key
    /\ \A i \in 1..Len(counts) :
          /\ counts[i].count >= 1
          /\ counts[i].count = Cardinality({j \in 1..Len(t) : t[j] = counts[i].key})
    /\ \A i, j \in 1..Len(counts) :
          i < j => FirstAt(t, counts[i].key) < FirstAt(t, counts[j].key)

\* C13: grocery aggregation over any sequence of ingredient strings yields a
\* mapping whose keys are exactly the distinct non-empty trimmed inputs
\* (case-sensitive), whose values count the inputs that trim to the key
\* (hence >= 1), in the order of first occurrence.
C13_GroceryCounts ==
    gro.kind # "plans" => IsCountOf(gro.counts, GroceryInputs)

\* ["Eggs", "eggs ", "Eggs", "Milk"] gave Eggs: 2, eggs: 1, Milk: 1.
C13_Witness ==
    /\ gro.kind = "aggregateIngredients"
    /\ GroceryInputs = << <<"Eggs">>, <<"eggs", " ">>, <<"Eggs">>, <<"Milk">> >>
    /\ gro.counts = << [key |-> <<"Eggs">>, count |-> 2],
                       [key |-> <<"eggs">>, count |-> 1],
                       [key |-> <<"Milk">>, count |-> 1] >>

\* The items a plan contributes: its grocery_list when it has one, else the
\* flattened ingredients of its meals.
PreferredRaws(p) == IF p.grocery_list.has THEN p.grocery_list.items ELSE MealRaws(p)

\* C14: for each day plan the aggregation takes the plan's grocery_list when
\* the plan has one and only otherwise the flattened per-meal ingredients; a
\* plan with only one of the two sources still contributes its items.
C14_GroceryListPreferred ==
    gro.kind # "plans" =>
        IsCountOf(gro.counts,
                  Concat([i \in 1..Len(gro.plans) |-> PreferredRaws(gro.plans[i])]))

\* The lines of an exported text.
LinesOf(text) == SplitOn(text, "\n")

\* C15: the plain-text export has one line per aggregated item in insertion
\* order, joined by newline with no trailing newline: `- <item>` for a count
\* of 1, `- <item>  x<count>` for a greater count; an empty list exports the
\* empty string.
C15_TextExport ==
    gro.kind \in {"exportTxt", "buildCombinedGrocery txt"} =>
        /\ Len(gro.counts) = 0 => gro.out = <<>>
        /\ Len(gro.counts) > 0 =>
              /\ Len(LinesOf(gro.out)) = Len(gro.counts)
              /\ \A i \in 1..Len(gro.counts) :
                    LinesOf(gro.out)[i] =
                        IF gro.counts[i].count = 1
                        THEN <<"- ">> \o gro.counts[i].key
                        ELSE <<"- ">> \o gro.counts[i].key
                                \o <<"  x", Decimal(gro.counts[i].count)>>

\* Eggs: 2, Milk: 1 was exported as "- Eggs  x2\n- Milk".
C15_Witness ==
    /\ gro.kind = "exportTxt"
    /\ gro.counts = << [key |-> <<"Eggs">>, count |-> 2],
                       [key |-> <<"Milk">>, count |-> 1] >>
    /\ gro.out = <<"- ", "Eggs", "  x", "2", "\n", "- ", "Milk">>

\* C16: the CSV export is the header `item,count`, then one row per item in
\* insertion order: the item in double quotes with every inner double quote
\* doubled, a comma, the count as a plain integer; `Item "A"` with count 1
\* gives `"Item ""A""",1`; an empty list exports the header only.
C16_CsvExport ==
    gro.kind \in {"exportCsv", "buildCombinedGrocery csv"} =>
        /\ Len(LinesOf(gro.out)) = Len(gro.counts) + 1
        /\ LinesOf(gro.out)[1] = <<"item,count">>
        /\ \A i \in 1..Len(gro.counts) :
              /\ LinesOf(gro.out)[i + 1] =
                    <<"\"">> \o DoubleQuotes(gro.counts[i].key)
                        \o <<"\"", ",", Decimal(gro.counts[i].count)>>
              /\ (gro.counts[i] = [key |-> <<"Item", " ", "\"", "A", "\"">>, count |-> 1]
                    => LinesOf(gro.out)[i + 1] =
                          <<"\"", "Item", " ", "\"", "\"", "A", "\"", "\"", "\"", ",", "1">>)

\* Item "A" alone was exported as the header and the row "Item ""A""",1.
C16_Witness ==
    /\ gro.kind = "exportCsv"
    /\ gro.out = <<"item,count", "\n",
                   "\"", "Item", " ", "\"", "\"", "A", "\"", "\"", "\"", ",", "1">>

\* ---------------------------------------------------------------------------
\* Sport normalization (ui/activities.js normalizeSport, summary page line 126)
\* ---------------------------------------------------------------------------

\* A type is a sequence of chunks (" " is white space), a name a sequence of
\* characters; a field that is missing is Null.  A label is what the function
\* returned: a string, or the function object found on Object.prototype.
Text(str) == [type |-> "string", text |-> str]
Inherited(key) == [type |-> "function", text |-> <<key>>]
Undefined == [type |-> "undefined", text |-> <<>>]

\* const map = { Run: 'Running', ... }
SportMap ==
    [t \in {"Run", "TrailRun", "Ride", "VirtualRide", "WeightTraining",
            "StrengthTraining", "Walk", "Hike", "Swim", "Rowing", "IndoorCycling",
            "Crossfit", "Yoga", "Elliptical", "StairStepper", "NordicSki",
            "AlpineSki", "Snowboard"} |->
        CASE t \in {"Run", "TrailRun"} -> "Running"
          [] t = "Ride" -> "Cycling"
          [] t \in {"VirtualRide", "IndoorCycling"} -> "Cycling (Virtual)"
          [] t \in {"WeightTraining", "StrengthTraining"} -> "Strength"
          [] t = "Walk" -> "Walking"
          [] t = "Hike" -> "Hiking"
          [] t = "Swim" -> "Swimming"
          [] t = "Crossfit" -> "CrossFit"
          [] t = "StairStepper" -> "Stair Stepper"
          [] t \in {"NordicSki", "AlpineSki"} -> "Skiing"
          [] OTHER -> t]

\* The function-valued properties every object literal inherits.
ObjectPrototype ==
    {"constructor", "toString", "valueOf", "hasOwnProperty", "isPrototypeOf",
     "propertyIsEnumerable", "toLocaleString"}

\* map[t]: the own property, else the inherited one, else undefined.
MapGet(t) ==
    IF Len(t) = 1 /\ t[1] \in DOMAIN SportMap THEN Text(<<SportMap[t[1]]>>)
    ELSE IF Len(t) = 1 /\ t[1] \in ObjectPrototype THEN Inherited(t[1])
    ELSE Undefined

UpperCase == <<"A", "B", "C", "D", "E", "F", "G", "H", "I", "J", "K", "L", "M",
               "N", "O", "P", "Q", "R", "S", "T", "U", "V", "W", "X", "Y", "Z">>
LowerCase == <<"a", "b", "c", "d", "e", "f", "g", "h", "i", "j", "k", "l", "m",
               "n", "o", "p", "q", "r", "s", "t", "u", "v", "w", "x", "y", "z">>

toLowerCase(str) ==
    [i \in 1..Len(str) |->
        IF \E k \in 1..26 : UpperCase[k] = str[i]
        THEN LowerCase[CHOOSE k \in 1..26 : UpperCase[k] = str[i]]
        ELSE str[i]]

\* name.includes(word)
includes(name, word) ==
    \E i \in 0..(Len(name) - Len(word)) :
        \A j \in 1..Len(word) : name[i + j] = word[j]

Zwift == <<"z", "w", "i", "f", "t">>
Trainerroad == <<"t", "r", "a", "i", "n", "e", "r", "r", "o", "a", "d">>
Virtual == <<"v", "i", "r", "t", "u", "a", "l">>
UpperBody == <<"u", "p", "p", "e", "r", " ", "b", "o", "d", "y">>
Strength == <<"s", "t", "r", "e", "n", "g", "t", "h">>
Core == <<"c", "o", "r", "e">>

IsVirtualName(name) ==
    includes(name, Zwift) \/ includes(name, Trainerroad) \/ includes(name, Virtual)
IsStrengthName(name) ==
    includes(name, UpperBody) \/ includes(name, Strength) \/ includes(name, Core)

DistAtLeastKm(dist) == dist >= 1000
\* dist > 1000
DistOverKm(dist) == dist > 1000

\* if (t === 'Workout' || !t) { ... }
Heuristics(name, dist) ==
    IF DistOverKm(dist)
    THEN IF IsVirtualName(name) THEN <<"Cycling (Virtual)">> ELSE <<"Cycling">>
    ELSE IF IsStrengthName(name) THEN <<"Strength">> ELSE <<"Workout">>

normalizeSport(a) ==
    LET label == Or(a.sport_label, a.sport)
        t     == trim(Or(a.type, <<>>))
        name  == toLowerCase(Or(a.name, <<>>))
        dist  == a.distance_m
    IN  IF Truthy(label) THEN Text(label)
        ELSE IF MapGet(t) # Undefined THEN MapGet(t)
        ELSE IF t = <<"Workout">> \/ Len(t) = 0 THEN Text(Heuristics(name, dist))
        ELSE Text(t)

\* const sport = (it.type || it.sport || 'Workout').toString();
summarySport(it) == Text(Or(Or(it.type, it.sport), <<"Workout">>))

Types ==
    {<<t>> : t \in DOMAIN SportMap}
        \cup {Null, <<>>, <<" ">>, <<"Workout">>, <<" ", "Ride", " ">>,
              <<"Kitesurf">>, <<"Trail", " ", "Run">>, <<"constructor">>}

Names ==
    {Null,
     <<"Z", "w", "i", "f", "t", " ", "R", "i", "d", "e">>,
     <<"M", "o", "r", "n", "i", "n", "g", " ", "R", "i", "d", "e">>,
     <<"U", "p", "p", "e", "r", " ", "B", "o", "d", "y">>,
     <<"H", "a", "r", "d", "c", "o", "r", "e">>,
     <<"V", "i", "r", "t", "u", "a", "l", " ", "S", "t", "r", "e", "n", "g", "t", "h">>,
     <<"T", "r", "a", "i", "n", "e", "r", "R", "o", "a", "d">>}

\* Number(a.distance_m || 0): 0 stands for a missing distance as well.
Distances == {0, 1000, 1001, 5000}

SportLabels == {Null, <<>>, <<"Gravel">>}
Sports == {Null, <<"ride">>}

SportInit ==
    /\ \E l \in SportLabels, s \in Sports, t \in Types, n \in Names, d \in Distances :
          sport = [kind |-> "activity",
                   a |-> [sport_label |-> l, sport |-> s, type |-> t, name |-> n,
                          distance_m |-> d],
                   label |-> Undefined]
    /\ week = NoCall /\ gro = NoCall /\ agg = NoCall
    /\ unit = NoCall /\ dest = NoCall /\ form = NoCall /\ sync = NoCall /\ wk = NoCall
    /\ dateIn = NoDate /\ dateOut = NoDate
    /\ ls = EmptyLocal /\ ss = EmptySession /\ winAccess = Null
    /\ page \in {p \in Pages : p.search = <<>> /\ p.qtoken = Null}
    /\ href = Null /\ req = Idle /\ out = Idle /\ logout = "idle"
    /\ lastWrite = Idle /\ got = NoGet
    /\ op = Idle
    /\ loads = <<>> /\ view = NoView

SportFrame == UNCHANGED <<storageVars, httpVars, storeVars, opVars, dateVars, viewVars,
                          week, gro, agg, moreVars>>

CallNormalizeSport ==
    /\ sport.kind = "activity"
    /\ sport' = [sport EXCEPT !.kind = "normalizeSport",
                              !.label = normalizeSport(sport.a)]
    /\ SportFrame

CallSummarySport ==
    /\ sport.kind = "activity"
    /\ sport' = [sport EXCEPT !.kind = "groupByDateAndSport",
                              !.label = summarySport(sport.a)]
    /\ SportFrame

SportNext == CallNormalizeSport \/ CallSummarySport

SpecSport == SportInit /\ [][SportNext]_vars

\* C19: every type of the canonical table is given its label, every other
\* non-empty type except "Workout" is returned verbatim, and so the label is
\* always a non-empty string.
C19_TableElseVerbatim ==
    sport.kind \in {"normalizeSport", "groupByDateAndSport"} =>
        LET t == sport.a.type
        IN  /\ (t # Null /\ Len(t) = 1 /\ t[1] \in DOMAIN SportMap)
                  => sport.label = Text(<<SportMap[t[1]]>>)
            /\ (t # Null /\ Len(t) > 0 /\ t # <<"Workout">>
                      /\ ~(Len(t) = 1 /\ t[1] \in DOMAIN SportMap))
                  => sport.label = Text(t)
            /\ sport.label.type = "string"
            /\ Len(sport.label.text) > 0

\* The activity has no label of its own and its type, white space at the
\* ends aside, is empty or "Workout".
Unlabelled(a) ==
    /\ ~Truthy(Or(a.sport_label, a.sport))
    /\ trim(Or(a.type, <<>>)) \in {<<>>, <<"Workout">>}

\* C20 as stated: an activity whose type is empty or "Workout" is
\* "Cycling (Virtual)" when its distance exceeds 1000 m and its name has
\* zwift, trainerroad or virtual, "Strength" when its name has a strength
\* keyword, and "Workout" in every other case.
C20_WorkoutHeuristics ==
    (sport.kind = "normalizeSport" /\ Or(sport.a.type, <<>>) \in {<<>>, <<"Workout">>}) =>
        LET name    == toLowerCase(Or(sport.a.name, <<>>))
            virtual == sport.a.distance_m > 1000 /\ IsVirtualName(name)
        IN  /\ virtual => sport.label = Text(<<"Cycling (Virtual)">>)
            /\ (~virtual /\ IsStrengthName(name)) => sport.label = Text(<<"Strength">>)
            /\ (~virtual /\ ~IsStrengthName(name)) => sport.label = Text(<<"Workout">>)

\* C20 (amended): for an activity with no sport_label or sport of its own
\* whose trimmed type is empty or "Workout": over 1000 m it is
\* "Cycling (Virtual)" when its lower-cased name has zwift, trainerroad or
\* virtual and "Cycling" otherwise, whatever else the name says; at 1000 m or
\* less it is "Strength" when the name has upper body, strength or core and
\* "Workout" otherwise.  Type "", distance 5000, name "Zwift Ride" is
\* "Cycling (Virtual)".
C20_DistanceFirst ==
    (sport.kind = "normalizeSport" /\ Unlabelled(sport.a)) =>
        LET name == toLowerCase(Or(sport.a.name, <<>>))
            far  == sport.a.distance_m > 1000
        IN  /\ (far /\ IsVirtualName(name)) => sport.label = Text(<<"Cycling (Virtual)">>)
            /\ (far /\ ~IsVirtualName(name)) => sport.label = Text(<<"Cycling">>)
            /\ (~far /\ IsStrengthName(name)) => sport.label = Text(<<"Strength">>)
            /\ (~far /\ ~IsStrengthName(name)) => sport.label = Text(<<"Workout">>)
            /\ (sport.a.type = <<>> /\ sport.a.distance_m = 5000
                  /\ sport.a.name = <<"Z", "w", "i", "f", "t", " ", "R", "i", "d", "e">>)
                  => sport.label = Text(<<"Cycling (Virtual)">>)

\* A 5000 m "Morning Ride" of type "Workout" was labelled "Cycling".
C20_Witness ==
    /\ sport.kind = "normalizeSport"
    /\ Unlabelled(sport.a)
    /\ sport.a.type = <<"Workout">>
    /\ sport.a.distance_m = 5000
    /\ sport.a.name = <<"M", "o", "r", "n", "i", "n", "g", " ", "R", "i", "d", "e">>
    /\ sport.label = Text(<<"Cycling">>)

\* ---------------------------------------------------------------------------
\* Day/sport aggregation (ui/activities.js aggregateClientSide; summary page
\* groupByDateAndSport, renderTable, renderKPIs, renderDonut, load)
\* ---------------------------------------------------------------------------

\* A start_time, a date and the two ends of the range are strings compared
\* with < and <=: sequences of character codes, <<>> for a missing or empty
\* one.  kcal is <<>> when the activity has none, else <<n>>.
\* The code unit of a digit; 45 is that of "-" and 84 that of "T".
Code(digit) == 48 + digit

\* The ten characters of toISOString() that dateISO keeps.
IsoText(iso) ==
    << Code(iso[1] \div 1000), Code((iso[1] \div 100) % 10),
       Code((iso[1] \div 10) % 10), Code(iso[1] % 10), 45,
       Code(iso[2] \div 10), Code(iso[2] % 10), 45,
       Code(iso[3] \div 10), Code(iso[3] % 10) >>

\* a < b on strings: by code unit, a proper prefix first.
StrLess(a, b) ==
    \E i \in 1..(Len(a) + 1) :
        /\ \A j \in 1..(i - 1) : j <= Len(b) /\ a[j] = b[j]
        /\ \/ i = Len(a) + 1 /\ Len(b) >= i
           \/ i <= Len(a) /\ i <= Len(b) /\ a[i] < b[i]

StrLeq(a, b) == a = b \/ StrLess(a, b)

\* d.slice(0, 10)
Slice10(str) == SubSeq(str, 1, IF Len(str) < 10 THEN Len(str) ELSE 10)

\* fmt.dateISO(a.start_time || a.date || new Date())
ActivityDate(a, now) ==
    IF Len(a.start_time) > 0 THEN Slice10(a.start_time)
    ELSE IF Len(a.date) > 0 THEN Slice10(a.date)
    ELSE IsoText(dateISO(now))

withinExclusive(dISO, fromISO, toISO) == StrLess(fromISO, dISO) /\ StrLess(dISO, toISO)
\* const within = (dISO) => (dISO >= fromISO && dISO <= toISO);
within(dISO, fromISO, toISO) == StrLeq(fromISO, dISO) /\ StrLeq(dISO, toISO)

inRange(dISO, fromISO, toISO) == StrLeq(fromISO, dISO) /\ StrLeq(dISO, toISO)

\* Math.round(Number(a.kcal || 0)), kcal a whole number
ActivityKcal(a) == IF Len(a.kcal) = 1 THEN a.kcal[1] ELSE 0

\* typeof a.kcal === 'number' ? a.kcal : Math.round((a.duration_sec || 0) / 60 * 7)
kcalForActivity(a) ==
    IF Len(a.kcal) = 1 THEN a.kcal[1] ELSE (a.duration_sec * 7 + 30) \div 60

AddEntryLast(entries, label, kcal) ==
    IF \E i \in 1..Len(entries) : entries[i].sport = label
    THEN [i \in 1..Len(entries) |->
            IF entries[i].sport = label
            THEN [entries[i] EXCEPT !.kcal = kcal] ELSE entries[i]]
    ELSE Append(entries, [sport |-> label, kcal |-> kcal])
\* map.set(label, (map.get(label) || 0) + kcal), the map in insertion order
AddEntry(entries, label, kcal) ==
    IF \E i \in 1..Len(entries) : entries[i].sport = label
    THEN [i \in 1..Len(entries) |->
            IF entries[i].sport = label
            THEN [entries[i] EXCEPT !.kcal = @ + kcal] ELSE entries[i]]
    ELSE Append(entries, [sport |-> label, kcal |-> kcal])

\* The day's record found or created, the activity added to it.
AddDay(days, date, label, kcal) ==
    IF \E i \in 1..Len(days) : days[i].date = date
    THEN [i \in 1..Len(days) |->
            IF days[i].date = date
            THEN [days[i] EXCEPT !.training_kcal = @ + kcal,
                                 !.by_sport = AddEntry(@, label, kcal)]
            ELSE days[i]]
    ELSE Append(days, [date |-> date, training_kcal |-> kcal,
                       by_sport |-> <<[sport |-> label, kcal |-> kcal]>>])

DaysAsInserted(days) == days
\* Array.from(daysMap.values()).sort((a,b)=> (a.date < b.date ? -1 : 1))
RECURSIVE SortDays(_)
SortDays(days) ==
    IF Len(days) = 0 THEN <<>>
    ELSE LET rest == SortDays(SubSeq(days, 1, Len(days) - 1))
             d    == days[Len(days)]
             k    == Cardinality({i \in 1..Len(rest) : StrLess(rest[i].date, d.date)})
         IN  SubSeq(rest, 1, k) \o <<d>> \o SubSeq(rest, k + 1, Len(rest))

\* Array.from(daysMap.keys()).sort(), each key with its record
RECURSIVE SortKeys(_)
SortKeys(days) ==
    IF Len(days) = 0 THEN <<>>
    ELSE LET rest == SortKeys(SubSeq(days, 1, Len(days) - 1))
             d    == days[Len(days)]
             k    == Cardinality({i \in 1..Len(rest) : StrLess(rest[i].date, d.date)})
         IN  SubSeq(rest, 1, k) \o <<d>> \o SubSeq(rest, k + 1, Len(rest))

\* entries.sort((a,b)=>b[1]-a[1]): by kcal, largest first, equal ones as they were
RECURSIVE SortByKcal(_)
SortByKcal(entries) ==
    IF Len(entries) = 0 THEN <<>>
    ELSE LET rest == SortByKcal(SubSeq(entries, 1, Len(entries) - 1))
             e    == entries[Len(entries)]
             k    == Cardinality({i \in 1..Len(rest) : rest[i].kcal >= e.kcal})
         IN  SubSeq(rest, 1, k) \o <<e>> \o SubSeq(rest, k + 1, Len(rest))

\* Property names that are array indices; an object enumerates them first.
IndexKeys == {<<"10">>}
IsIndexKey(e) == e.sport \in IndexKeys
IsNameKey(e) == e.sport \notin IndexKeys

\* Object.entries(d.by_sport)
ObjectEntries(by_sport) == SelectSeq(by_sport, IsIndexKey) \o SelectSeq(by_sport, IsNameKey)

aggregateClientSide(items, fromISO, toISO, now) ==
    LET Acc[i \in 0..Len(items)] ==
            IF i = 0 THEN [days |-> <<>>, sports |-> <<>>, count |-> 0, total |-> 0]
            ELSE LET a    == items[i]
                     date == ActivityDate(a, now)
                 IN  IF ~within(date, fromISO, toISO) THEN Acc[i - 1]
                     ELSE LET kcal  == ActivityKcal(a)
                              label == normalizeSport(a).text
                          IN  [days   |-> AddDay(Acc[i - 1].days, date, label, kcal),
                               sports |-> AddEntry(Acc[i - 1].sports, label, kcal),
                               count  |-> Acc[i - 1].count + 1,
                               total  |-> Acc[i - 1].total + kcal]
        acc  == Acc[Len(items)]
        days == SortDays(acc.days)
    IN  [total_training_kcal |-> acc.total,
         activity_count      |-> acc.count,
         totals_by_sport     |-> acc.sports,
         days |-> [i \in 1..Len(days) |->
                      [days[i] EXCEPT !.by_sport = ObjectEntries(@)]]]

groupByDateAndSport(items, fromISO, toISO, now) ==
    LET Acc[i \in 0..Len(items)] ==
            IF i = 0 THEN <<>>
            ELSE LET it == items[i]
                     d  == ActivityDate(it, now)
                 IN  IF ~inRange(d, fromISO, toISO) THEN Acc[i - 1]
                     ELSE AddDay(Acc[i - 1], d, summarySport(it).text, kcalForActivity(it))
    IN  Acc[Len(items)]

\* The rows of the table: date, training kcal, the sports of the day.
renderTable(daysMap) ==
    LET days == SortKeys(daysMap)
    IN  [i \in 1..Len(days) |-> [days[i] EXCEPT !.by_sport = SortByKcal(@)]]

\* totalTrain of renderKPIs
RECURSIVE totalTrain(_)
totalTrain(daysMap) ==
    IF Len(daysMap) = 0 THEN 0
    ELSE daysMap[1].training_kcal + totalTrain(Tail(daysMap))

\* sportTotals of renderDonut, then sorted
RECURSIVE sportTotals(_, _)
sportTotals(totals, entries) ==
    IF Len(entries) = 0 THEN totals
    ELSE sportTotals(AddEntry(totals, entries[1].sport, entries[1].kcal), Tail(entries))

renderDonut(daysMap) ==
    SortByKcal(sportTotals(<<>>, Concat([i \in 1..Len(daysMap) |-> daysMap[i].by_sport])))

InRangeItem(it, fromISO, toISO, now) == inRange(ActivityDate(it, now), fromISO, toISO)

load(items, fromISO, toISO, now) ==
    LET daysMap == groupByDateAndSport(items, fromISO, toISO, now)
    IN  [total_training_kcal |-> totalTrain(daysMap),
         activity_count      |->
             Cardinality({i \in 1..Len(items) : InRangeItem(items[i], fromISO, toISO, now)}),
         totals_by_sport     |-> renderDonut(daysMap),
         days                |-> renderTable(daysMap)]

\* The sample activities: a day of 2024 as start_time or as date, or neither.
Day2024(month, date) == IsoText(<<2024, month, date>>)
StartAt(iso) == iso \o <<84, Code(0), Code(6)>>

Activity(start, date, kcal, type, label) ==
    [start_time |-> start, date |-> date, kcal |-> kcal, duration_sec |-> 600,
     type |-> type, sport_label |-> label, sport |-> Null, name |-> Null,
     distance_m |-> 0]

Activities ==
    { Activity(StartAt(Day2024(1, 1)), <<>>, <<300>>, <<"Run">>, Null),
      Activity(StartAt(Day2024(1, 15)), <<>>, <<500>>, <<"Ride">>, Null),
      Activity(StartAt(Day2024(2, 1)), <<>>, <<200>>, <<"Run">>, Null),
      Activity(StartAt(Day2024(1, 15)), <<>>, <<100>>, <<"Run">>, Null),
      Activity(StartAt(Day2024(1, 15)), <<>>, <<50>>, <<"Workout">>, <<"10">>),
      Activity(<<>>, Day2024(1, 31), <<>>, <<"Swim">>, Null),
      Activity(<<>>, <<>>, <<50>>, <<"Yoga">>, Null) }

MaxActivities == 3

ActivityLists == UNION {[1..n -> Activities] : n \in 0..MaxActivities}

\* [from, to]: January, one day, and a range whose ends are swapped.
DateRanges ==
    { <<Day2024(1, 1), Day2024(1, 31)>>,
      <<Day2024(1, 15), Day2024(1, 15)>>,
      <<Day2024(2, 1), Day2024(1, 1)>> }

\* new Date(): 15 January or 1 February 2024.
Clocks == {DateOf(19737, 0), DateOf(19754, 0)}

NoResult == [total_training_kcal |-> 0, activity_count |-> 0,
             totals_by_sport |-> <<>>, days |-> <<>>]

AggInit ==
    /\ \E items \in ActivityLists, r \in DateRanges :
          agg = [kind |-> "items", items |-> items, from |-> r[1], to |-> r[2],
                 now |-> NoDate, res |-> NoResult, again |-> NoDate, res2 |-> NoResult]
    /\ week = NoCall /\ gro = NoCall /\ sport = NoCall
    /\ unit = NoCall /\ dest = NoCall /\ form = NoCall /\ sync = NoCall /\ wk = NoCall
    /\ dateIn = NoDate /\ dateOut = NoDate
    /\ ls = EmptyLocal /\ ss = EmptySession /\ winAccess = Null
    /\ page \in {p \in Pages : p.search = <<>> /\ p.qtoken = Null}
    /\ href = Null /\ req = Idle /\ out = Idle /\ logout = "idle"
    /\ lastWrite = Idle /\ got = NoGet
    /\ op = Idle
    /\ loads = <<>> /\ view = NoView

AggFrame == UNCHANGED <<storageVars, httpVars, storeVars, opVars, dateVars, viewVars,
                        week, gro, sport, moreVars>>

\* loadSummary of the activities page, the items fetched.
CallAggregateClientSide(now) ==
    /\ agg.kind = "items"
    /\ agg' = [agg EXCEPT !.kind = "aggregateClientSide", !.now = now,
                          !.res = aggregateClientSide(agg.items, agg.from, agg.to, now)]
    /\ AggFrame

\* The same items and range aggregated once more, later.
CallAggregateClientSideAgain(now) ==
    /\ agg.kind = "aggregateClientSide"
    /\ agg' = [agg EXCEPT !.kind = "aggregateClientSide again", !.again = now,
                          !.res2 = aggregateClientSide(agg.items, agg.from, agg.to, now)]
    /\ AggFrame

\* load of the summary page, the items fetched.
CallLoad(now) ==
    /\ agg.kind = "items"
    /\ agg' = [agg EXCEPT !.kind = "load", !.now = now,
                          !.res = load(agg.items, agg.from, agg.to, now)]
    /\ AggFrame

CallLoadAgain(now) ==
    /\ agg.kind = "load"
    /\ agg' = [agg EXCEPT !.kind = "load again", !.again = now,
                          !.res2 = load(agg.items, agg.from, agg.to, now)]
    /\ AggFrame

AggNext ==
    \/ \E now \in Clocks : CallAggregateClientSide(now)
    \/ \E now \in Clocks : CallAggregateClientSideAgain(now)
    \/ \E now \in Clocks : CallLoad(now)
    \/ \E now \in Clocks : CallLoadAgain(now)

SpecAgg == AggInit /\ [][AggNext]_vars

\* The page whose aggregation ran, and what it takes as an activity's kcal
\* and sport.
OnActivitiesPage == agg.kind \in {"aggregateClientSide", "aggregateClientSide again"}
KcalAt(i) ==
    IF OnActivitiesPage THEN ActivityKcal(agg.items[i]) ELSE kcalForActivity(agg.items[i])
SportAt(i) ==
    IF OnActivitiesPage THEN normalizeSport(agg.items[i]).text
    ELSE summarySport(agg.items[i]).text

\* The calendar date of the i-th activity, read at the given time.
DateAt(i, now) == ActivityDate(agg.items[i], now)

\* The activities whose date d satisfies from <= d <= to.
Counted(now) ==
    {i \in 1..Len(agg.items) :
        StrLeq(agg.from, DateAt(i, now)) /\ StrLeq(DateAt(i, now), agg.to)}

RECURSIVE SumKcal(_)
SumKcal(S) ==
    IF S = {} THEN 0
    ELSE LET i == CHOOSE j \in S : TRUE IN KcalAt(i) + SumKcal(S \ {i})

\* The result counts exactly the activities of the set.
CountsExactly(r, now, In) ==
    /\ r.activity_count = Cardinality(In)
    /\ r.total_training_kcal = SumKcal(In)
    /\ {r.days[k].date : k \in 1..Len(r.days)} = {DateAt(i, now) : i \in In}
    /\ \A k \in 1..Len(r.days) :
          LET day == r.days[k]
              on  == {i \in In : DateAt(i, now) = day.date}
          IN  /\ day.training_kcal = SumKcal(on)
              /\ {day.by_sport[e].sport : e \in 1..Len(day.by_sport)}
                    = {SportAt(i) : i \in on}
              /\ \A e \in 1..Len(day.by_sport) :
                    day.by_sport[e].kcal
                       = SumKcal({i \in on : SportAt(i) = day.by_sport[e].sport})
    /\ {r.totals_by_sport[k].sport : k \in 1..Len(r.totals_by_sport)}
          = {SportAt(i) : i \in In}
    /\ \A k \in 1..Len(r.totals_by_sport) :
          r.totals_by_sport[k].kcal
             = SumKcal({i \in In : SportAt(i) = r.totals_by_sport[k].sport})

\* C17: an activity is counted if and only if its calendar date d, the first
\* ten characters of its start time, satisfies from <= d <= to as strings,
\* both ends included: the day rows, the sport totals, the kcal total and the
\* activity count are those of exactly the activities in the range.
C17_CountedIffInRange ==
    agg.kind # "items" =>
        /\ CountsExactly(agg.res, agg.now, Counted(agg.now))
        /\ \A i \in 1..Len(agg.items) :
              Len(agg.items[i].start_time) >= 10
                 => DateAt(i, agg.now) = SubSeq(agg.items[i].start_time, 1, 10)

\* Activities on 2024-01-01, 2024-01-15 and 2024-02-01 with the range
\* [2024-01-01, 2024-01-31]: the first two were counted.
C17_Witness ==
    /\ agg.kind = "aggregateClientSide"
    /\ agg.items =
          << Activity(StartAt(Day2024(1, 1)), <<>>, <<300>>, <<"Run">>, Null),
             Activity(StartAt(Day2024(1, 15)), <<>>, <<500>>, <<"Ride">>, Null),
             Activity(StartAt(Day2024(2, 1)), <<>>, <<200>>, <<"Run">>, Null) >>
    /\ agg.from = Day2024(1, 1) /\ agg.to = Day2024(1, 31)
    /\ agg.res.activity_count = 2
    /\ agg.res.total_training_kcal = 800
    /\ Len(agg.res.days) = 2

\* The rows are strictly ascending by date string.
Ascending(days) ==
    \A k \in 1..(Len(days) - 1) : StrLess(days[k].date, days[k + 1].date)

\* One row per date that has an activity in the range.
OneRowPerDate(days, now) ==
    /\ Ascending(days)
    /\ {days[k].date : k \in 1..Len(days)} = {DateAt(i, now) : i \in Counted(now)}

\* The sports of a day's row, in the order the row lists them.
SportsOf(day) == [e \in 1..Len(day.by_sport) |-> day.by_sport[e].sport]

\* The sports of the activities counted for a date, each where it was first seen.
FirstSeen(date, now) ==
    LET Acc[i \in 0..Len(agg.items)] ==
            IF i = 0 THEN <<>>
            ELSE IF /\ i \in Counted(now)
                    /\ DateAt(i, now) = date
                    /\ \A e \in 1..Len(Acc[i - 1]) : Acc[i - 1][e] # SportAt(i)
                 THEN Append(Acc[i - 1], SportAt(i))
                 ELSE Acc[i - 1]
    IN  Acc[Len(agg.items)]

IsIndex(label) == label \in IndexKeys
IsName(label) == label \notin IndexKeys

\* Every activity carries a start_time or a date.
AllDated == \A i \in 1..Len(agg.items) :
               Len(agg.items[i].start_time) > 0 \/ Len(agg.items[i].date) > 0

KcalField(i) == IF Len(agg.items[i].kcal) = 1 THEN agg.items[i].kcal[1] ELSE 0

\* What the i-th activity adds: its kcal field; without one, nothing on the
\* activities page and 7 kcal per minute of its duration on the summary page.
Contribution(i) ==
    IF Len(agg.items[i].kcal) = 1 THEN agg.items[i].kcal[1]
    ELSE IF OnActivitiesPage THEN 0
    ELSE (agg.items[i].duration_sec * 7 + 30) \div 60

RECURSIVE SumFields(_)
SumFields(S) ==
    IF S = {} THEN 0
    ELSE LET i == CHOOSE j \in S : TRUE IN KcalField(i) + SumFields(S \ {i})

RECURSIVE SumContributions(_)
SumContributions(S) ==
    IF S = {} THEN 0
    ELSE LET i == CHOOSE j \in S : TRUE IN Contribution(i) + SumContributions(S \ {i})

RECURSIVE SumEntries(_)
SumEntries(entries) ==
    IF Len(entries) = 0 THEN 0 ELSE entries[1].kcal + SumEntries(Tail(entries))

RECURSIVE SumDays(_)
SumDays(days) ==
    IF Len(days) = 0 THEN 0 ELSE days[1].training_kcal + SumDays(Tail(days))

\* The sums of the result agree with one another.
SumsAgree(r) ==
    /\ \A k \in 1..Len(r.days) : SumEntries(r.days[k].by_sport) = r.days[k].training_kcal
    /\ SumEntries(r.totals_by_sport) = r.total_training_kcal
    /\ SumDays(r.days) = r.total_training_kcal

C22_MissingStartPrompts ==
    [][/\ (LoadWeek(<<>>) \/ PlanLoadWeek(<<>>) \/ LoadWeek(Null) \/ PlanLoadWeek(Null))
            => /\ view'.status = "Pick a start date."
               /\ loads' = loads
               /\ view'.grid = view.grid
               /\ view'.weekPlans = view.weekPlans
       /\ (view'.status = "Pick a start date." /\ view.status # "Pick a start date.")
            => /\ loads' = loads
               /\ view'.grid = view.grid
               /\ view'.weekPlans = view.weekPlans]_vars

\* The prompt is shown over the 7 cards and the stored list of an earlier load.
C22_Witness ==
    /\ view.status = "Pick a start date."
    /\ Len(view.grid) = Days
    /\ view.weekPlans.set
    /\ \A a \in DOMAIN loads : loads[a].pc = "done"

\* C24: once the overlapping loadWeek operations have all settled, the grid
\* holds exactly 7 day cards, all of a single load, no day twice.
C24_GridOfOneLoad ==
    (/\ view.doc \in {"plan-week", "plan"}
     /\ Len(loads) > 0
     /\ \A a \in DOMAIN loads : loads[a].pc = "done")
        => /\ Len(view.grid) = Days
           /\ \A i, j \in DOMAIN view.grid :
                 /\ view.grid[i].load = view.grid[j].load
                 /\ (i # j => view.grid[i].day # view.grid[j].day)

\* C23: whenever a fetch of a user-triggered load fails, the load ends with an
\* error message shown to the user.
C23_FailedLoadShowsMessage ==
    [][\A a \in 1..MaxLoads :
          (Completes(a) /\ loads'[a].pc = "failed") => view'.status = "error"]_vars

\* ------------------------------------------------------------------------
\* Unit conversion (Unit of ui/app.js and of ui/profile.js)
\* ------------------------------------------------------------------------
\* A JS value: null, undefined, NaN, a number (h: its value in hundredths,
\* products and quotients kept to the nearest hundredth) or a string.

JNull == [t |-> "null", h |-> 0, s |-> ""]
JUndefined == [t |-> "undefined", h |-> 0, s |-> ""]
NaN == [t |-> "NaN", h |-> 0, s |-> ""]
Num(h) == [t |-> "number", h |-> h, s |-> ""]
Str(s) == [t |-> "string", h |-> 0, s |-> s]

\* The strings of the model that read as a number, in hundredths.
NumericStrings == {"", "80"}
StringValue(s) == IF s = "80" THEN 8000 ELSE 0

\* ToNumber: what * and / and Math.round and isNaN make of their operand.
ToNumber(x) ==
    CASE x.t = "null" -> Num(0)
      [] x.t = "undefined" -> NaN
      [] x.t = "string" -> IF x.s \in NumericStrings THEN Num(StringValue(x.s)) ELSE NaN
      [] OTHER -> x

\* x == null
EqNull(x) == x.t \in {"null", "undefined"}

isNaN(x) == ToNumber(x).t = "NaN"

\* x * num / den
Times(x, num, den) ==
    IF ToNumber(x).t = "NaN" THEN NaN
    ELSE Num((ToNumber(x).h * num * 2 + den) \div (2 * den))

\* n + Number.EPSILON: a string is joined with "2.220446049250313e-16", and
\* what that reads as is less than a hundredth, or is not a number.
PlusEpsilon(n) ==
    IF n.t = "string" THEN (IF n.s \in NumericStrings THEN Num(0) ELSE NaN)
    ELSE ToNumber(n)

\* Math.round(x * 10) / 10
RoundTenth(x) == IF x.t = "NaN" THEN NaN ELSE Num(((x.h + 5) \div 10) * 10)

\* Math.round(x)
MathRound(x) == IF x.t = "NaN" THEN NaN ELSE Num(((x.h + 50) \div 100) * 100)

\* Unit of ui/app.js
kgToLb(kg) == IF ~EqNull(kg) THEN Times(kg, 22046, 10000) ELSE JNull
lbToKg(lb) == IF ~EqNull(lb) THEN Times(lb, 10000, 22046) ELSE JNull
cmToIn(cm) == IF ~EqNull(cm) THEN Times(cm, 100, 254) ELSE JNull
inToCm(inch) == IF ~EqNull(inch) THEN Times(inch, 254, 100) ELSE JNull
round1(n) == RoundTenth(PlusEpsilon(n))
round0(n) == MathRound(ToNumber(n))

\* Unit of ui/profile.js
ProfileKgToLb(kg) == IF EqNull(kg) \/ isNaN(kg) THEN JNull ELSE Times(kg, 22046, 10000)
ProfileLbToKg(lb) == IF EqNull(lb) \/ isNaN(lb) THEN JNull ELSE Times(lb, 10000, 22046)
ProfileCmToIn(cm) == IF EqNull(cm) \/ isNaN(cm) THEN JNull ELSE Times(cm, 100, 254)
ProfileInToCm(inch) == IF EqNull(inch) \/ isNaN(inch) THEN JNull ELSE Times(inch, 254, 100)
ProfileRound1(n) == IF EqNull(n) \/ isNaN(n) THEN Str("") ELSE RoundTenth(ToNumber(n))

UnitOf(fn, x) ==
    CASE fn = "kgToLb" -> kgToLb(x)
      [] fn = "lbToKg" -> lbToKg(x)
      [] fn = "cmToIn" -> cmToIn(x)
      [] fn = "inToCm" -> inToCm(x)
      [] fn = "round1" -> round1(x)
      [] fn = "round0" -> round0(x)

ProfileUnitOf(fn, x) ==
    CASE fn = "kgToLb" -> ProfileKgToLb(x)
      [] fn = "lbToKg" -> ProfileLbToKg(x)
      [] fn = "cmToIn" -> ProfileCmToIn(x)
      [] fn = "inToCm" -> ProfileInToCm(x)
      [] fn = "round1" -> ProfileRound1(x)

UnitInputs ==
    {JNull, JUndefined, NaN, Str(""), Str("abc"), Str("80")}
        \cup {Num(h) : h \in {0, 5, 7255, 8050, 18000, -125}}

UnitInit ==
    /\ \E x \in UnitInputs :
          unit = [kind |-> "input", file |-> "", fn |-> "", x |-> x, result |-> JUndefined]
    /\ week = NoCall /\ gro = NoCall /\ agg = NoCall /\ sport = NoCall
    /\ dest = NoCall /\ form = NoCall /\ sync = NoCall /\ wk = NoCall
    /\ dateIn = NoDate /\ dateOut = NoDate
    /\ ls = EmptyLocal /\ ss = EmptySession /\ winAccess = Null
    /\ page \in {p \in Pages : p.search = <<>> /\ p.qtoken = Null}
    /\ href = Null /\ req = Idle /\ out = Idle /\ logout = "idle"
    /\ lastWrite = Idle /\ got = NoGet
    /\ op = Idle
    /\ loads = <<>> /\ view = NoView

UnitFrame == UNCHANGED <<storageVars, httpVars, storeVars, opVars, dateVars, viewVars,
                         utilVars, dest, form, sync, wk>>

CallUnit(fn) ==
    /\ unit.kind = "input"
    /\ unit' = [unit EXCEPT !.kind = "called", !.file = "ui/app.js", !.fn = fn,
                            !.result = UnitOf(fn, unit.x)]
    /\ UnitFrame

CallProfileUnit(fn) ==
    /\ unit.kind = "input"
    /\ unit' = [unit EXCEPT !.kind = "called", !.file = "ui/profile.js", !.fn = fn,
                            !.result = ProfileUnitOf(fn, unit.x)]
    /\ UnitFrame

UnitNext ==
    \/ \E fn \in {"kgToLb", "lbToKg", "cmToIn", "inToCm", "round1", "round0"} : CallUnit(fn)
    \/ \E fn \in {"kgToLb", "lbToKg", "cmToIn", "inToCm", "round1"} : CallProfileUnit(fn)

SpecUnit == UnitInit /\ [][UnitNext]_vars

\* C25: every function of the unit conversion utility returns an explicit
\* no-value result (null or the empty string), never a number and never NaN,
\* for a missing (null, undefined) or non-numeric input, and a number for
\* every numeric input, 0 included.
C25_NoValueForNoInput ==
    unit.kind = "called" =>
        /\ (unit.x.t \in {"null", "undefined", "NaN"} \/ unit.x = Str("abc"))
              => (unit.result = JNull \/ unit.result = Str(""))
        /\ unit.x.t = "number" => unit.result.t = "number"

\* ------------------------------------------------------------------------
\* The post-login destination (ui/login.js getReturnPath and its callers)
\* ------------------------------------------------------------------------
\* The login page is https://app.example/ui/login.html. A URL is a sequence
\* of characters in which a host name is one element.

AppHost == <<"app.example">>
PlanHtml == <<"/", "u", "i", "/", "p", "l", "a", "n", ".", "h", "t", "m", "l">>

\* return (ret && ret.startsWith('/')) ? ret : '/ui/plan.html';
getReturnPath(locationHref) ==
    LET r == SearchParamGet(locationHref, ReturnKey)
    IN  IF Truthy(r) /\ r[1] = "/" THEN r ELSE PlanHtml

\* The URL parser drops tabs and line breaks wherever they stand.
RECURSIVE StripControls(_)
StripControls(url) ==
    IF url = <<>> THEN <<>>
    ELSE IF Head(url) \in {"\t", "\n", "\r"} THEN StripControls(Tail(url))
    ELSE <<Head(url)>> \o StripControls(Tail(url))

\* Where a host name ends.
HostEnd(rest) ==
    IF \E i \in 1..Len(rest) : rest[i] \in {"/", "\\", "?", "#"}
    THEN (CHOOSE i \in 1..Len(rest) :
             rest[i] \in {"/", "\\", "?", "#"}
                /\ \A j \in 1..(i - 1) : rest[j] \notin {"/", "\\", "?", "#"}) - 1
    ELSE Len(rest)

\* window.location.replace(url) on the login page: the host of the URL that
\* url resolves to. Two leading slashes, either of them possibly a
\* backslash, introduce a host; one leading slash is a path of this origin.
HostAfterReplace(url) ==
    LET u == StripControls(url)
    IN  IF Len(u) >= 2 /\ u[1] \in {"/", "\\"} /\ u[2] \in {"/", "\\"}
        THEN LET rest == SubSeq(u, 3, Len(u)) IN SubSeq(rest, 1, HostEnd(rest))
        ELSE AppHost

\* What an attacker or the application may put in front of the host or path.
RetPrefixes ==
    { <<>>, <<"/">>, <<"/", "/">>, <<"/", "\\">>, <<"/", "\t", "/">>,
      <<"h", "t", "t", "p", "s", ":", "/", "/">> }
RetHosts == {<<"evil.example">>, <<"app.example">>, <<"u", "i">>}
RetTails == {<<>>, <<"/", "x">>}

\* The query of the login page: no return parameter, or one with a value,
\* alone or after another parameter.
ReturnQueries ==
    { <<>>, <<"?", "a", "=", "1">>, <<"?">> \o ReturnKey \o <<"=">> }
        \cup { <<"?">> \o other \o ReturnKey \o <<"=">> \o pre \o host \o tail :
                  other \in {<<>>, <<"a", "=", "1", "&">>},
                  pre \in RetPrefixes, host \in RetHosts, tail \in RetTails }

DestInit ==
    /\ \E q \in ReturnQueries :
          dest = [kind |-> "login page", href |-> LoginHtml \o q,
                  path |-> <<>>, host |-> <<>>]
    /\ week = NoCall /\ gro = NoCall /\ agg = NoCall /\ sport = NoCall
    /\ unit = NoCall /\ form = NoCall /\ sync = NoCall /\ wk = NoCall
    /\ dateIn = NoDate /\ dateOut = NoDate
    /\ ls = EmptyLocal /\ ss = EmptySession /\ winAccess = Null
    /\ page \in {p \in Pages : p.search = <<>> /\ p.qtoken = Null}
    /\ href = Null /\ req = Idle /\ out = Idle /\ logout = "idle"
    /\ lastWrite = Idle /\ got = NoGet
    /\ op = Idle
    /\ loads = <<>> /\ view = NoView

DestFrame == UNCHANGED <<storageVars, httpVars, storeVars, opVars, dateVars, viewVars,
                         utilVars, unit, form, sync, wk>>

\* The user is already signed in: window.location.replace(getReturnPath()).
BounceAuthenticated ==
    /\ dest.kind = "login page"
    /\ dest' = [dest EXCEPT !.kind = "DOMContentLoaded",
                            !.path = getReturnPath(dest.href),
                            !.host = HostAfterReplace(getReturnPath(dest.href))]
    /\ DestFrame

\* The login succeeded: the timeout runs window.location.replace(getReturnPath()).
LeaveAfterLogin ==
    /\ dest.kind = "login page"
    /\ dest' = [dest EXCEPT !.kind = "handleFormSubmit",
                            !.path = getReturnPath(dest.href),
                            !.host = HostAfterReplace(getReturnPath(dest.href))]
    /\ DestFrame

DestNext == BounceAuthenticated \/ LeaveAfterLogin

SpecDest == DestInit /\ [][DestNext]_vars

\* C26: whatever the `return` parameter is, the browser is sent to its value
\* when that is a path on the current origin, else to /ui/plan.html, and
\* never to another origin.
C26_SameOriginDestination ==
    dest.kind \in {"DOMContentLoaded", "handleFormSubmit"} =>
        /\ dest.host = AppHost
        /\ dest.path \in {PlanHtml, SearchParamGet(dest.href, ReturnKey)}

\* ------------------------------------------------------------------------
\* The login form (ui/login.js handleFormSubmit, doLogin)
\* ------------------------------------------------------------------------
\* form.handlers lists the runs of the submit listener in the order of the
\* submit events; pc is where a run stands: "fetch" (awaiting /auth/login),
\* "body" (awaiting the body of a refusal), or how it ended.

MaxSubmits == 3

NeverBusy(f) == FALSE
\* if (inFlight) return;
Busy(f) == f.inFlight

\* The runs of the listener that have not ended.
Running27(f) == {h \in DOMAIN f.handlers : f.handlers[h].pc \in {"fetch", "body"}}

\* catch (e2) { flash(...) } finally { submitBtn.disabled = false; inFlight = false; }
LoginFailed(f, h, message) ==
    [f EXCEPT !.handlers[h].pc = "failed", !.msg = message,
              !.disabled = FALSE, !.inFlight = FALSE]

\* A submit event: the listener runs up to its first await or to its return.
Submit(email, password) ==
    /\ form.kind = "form" /\ ~form.left
    /\ Len(form.handlers) < MaxSubmits
    /\ form' =
          IF Busy(form)
          THEN [form EXCEPT !.handlers = Append(@, [pc |-> "ignored"])]
          ELSE IF ~Truthy(trim(Or(email, <<>>))) \/ ~Truthy(Or(password, <<>>))
          THEN [form EXCEPT !.handlers = Append(@, [pc |-> "missing"]),
                            !.msg = "Please enter both email and password.",
                            !.inFlight = FALSE]
          ELSE [form EXCEPT !.handlers = Append(@, [pc |-> "fetch"]),
                            !.inFlight = TRUE, !.disabled = TRUE,
                            !.msg = "Signing in"]
    /\ UNCHANGED <<storageVars, httpVars, storeVars, opVars, dateVars, viewVars,
                   utilVars, unit, dest, sync, wk>>

\* /auth/login answers 2xx: doLogin returns, the timeout is set, finally runs.
LoginAccepted(h) ==
    /\ form.kind = "form"
    /\ h \in DOMAIN form.handlers /\ form.handlers[h].pc = "fetch"
    /\ form' = [form EXCEPT !.handlers[h].pc = "signed in", !.timer = TRUE,
                            !.disabled = FALSE, !.inFlight = FALSE]
    /\ UNCHANGED <<storageVars, httpVars, storeVars, opVars, dateVars, viewVars,
                   utilVars, unit, dest, sync, wk>>

\* /auth/login answers with another status: doLogin reads the body.
LoginRefused(h) ==
    /\ form.kind = "form"
    /\ h \in DOMAIN form.handlers /\ form.handlers[h].pc = "fetch"
    /\ form' = [form EXCEPT !.handlers[h].pc = "body"]
    /\ UNCHANGED <<storageVars, httpVars, storeVars, opVars, dateVars, viewVars,
                   utilVars, unit, dest, sync, wk>>

\* The body was read and gave a detail, or did not: doLogin throws
\* new Error(detail || `HTTP ${res.status}`).
LoginBodyRead(h, detail) ==
    /\ form.kind = "form"
    /\ h \in DOMAIN form.handlers /\ form.handlers[h].pc = "body"
    /\ form' = LoginFailed(form, h, IF detail THEN "detail" ELSE "HTTP status")
    /\ UNCHANGED <<storageVars, httpVars, storeVars, opVars, dateVars, viewVars,
                   utilVars, unit, dest, sync, wk>>

\* fetch rejects: doLogin throws.
LoginUnreachable(h) ==
    /\ form.kind = "form"
    /\ h \in DOMAIN form.handlers /\ form.handlers[h].pc = "fetch"
    /\ form' = LoginFailed(form, h, "Failed to fetch")
    /\ UNCHANGED <<storageVars, httpVars, storeVars, opVars, dateVars, viewVars,
                   utilVars, unit, dest, sync, wk>>

\* setTimeout(() => window.location.replace(getReturnPath()), 0) fires.
LeaveLoginPage ==
    /\ form.kind = "form" /\ form.timer /\ ~form.left
    /\ form' = [form EXCEPT !.left = TRUE]
    /\ UNCHANGED <<storageVars, httpVars, storeVars, opVars, dateVars, viewVars,
                   utilVars, unit, dest, sync, wk>>

FormInit ==
    /\ form = [kind |-> "form", inFlight |-> FALSE, disabled |-> FALSE, msg |-> "",
               handlers |-> <<>>, timer |-> FALSE, left |-> FALSE]
    /\ week = NoCall /\ gro = NoCall /\ agg = NoCall /\ sport = NoCall
    /\ unit = NoCall /\ dest = NoCall /\ sync = NoCall /\ wk = NoCall
    /\ dateIn = NoDate /\ dateOut = NoDate
    /\ ls = EmptyLocal /\ ss = EmptySession /\ winAccess = Null
    /\ page \in {p \in Pages : p.search = <<>> /\ p.qtoken = Null}
    /\ href = Null /\ req = Idle /\ out = Idle /\ logout = "idle"
    /\ lastWrite = Idle /\ got = NoGet
    /\ op = Idle
    /\ loads = <<>> /\ view = NoView

\* What the two fields may hold.
Emails == {Null, <<>>, <<" ">>, <<"demo@glycofy.app">>}
Passwords == {Null, <<>>, <<"Demo1234!">>}

FormNext ==
    \/ \E email \in Emails, password \in Passwords : Submit(email, password)
    \/ \E h \in 1..MaxSubmits : LoginAccepted(h)
    \/ \E h \in 1..MaxSubmits : LoginRefused(h)
    \/ \E h \in 1..MaxSubmits, detail \in BOOLEAN : LoginBodyRead(h, detail)
    \/ \E h \in 1..MaxSubmits : LoginUnreachable(h)
    \/ LeaveLoginPage

SpecForm == FormInit /\ [][FormNext]_vars

\* C27: at most one /auth/login request is in flight however many submit
\* events fire; and once every submit attempt has finished (fields missing,
\* login failed, login succeeded) inFlight is false and the button is
\* enabled, so that the next submit with both fields sends its request.
C27_OneLoginAtATime ==
    [][/\ Cardinality({h \in DOMAIN form.handlers : form.handlers[h].pc = "fetch"}) <= 1
       /\ Running27(form) = {} => (~form.inFlight /\ ~form.disabled)
       /\ (Running27(form) = {} /\ Len(form'.handlers) > Len(form.handlers))
             => form'.handlers[Len(form'.handlers)].pc \in {"fetch", "missing"}]_vars

\* Three submits: the first was refused, the second came while the first was
\* in flight and was ignored, the third came afterwards and signed in.
C27_Witness ==
    /\ form.kind = "form"
    /\ Len(form.handlers) = 3
    /\ form.handlers[1].pc = "failed"
    /\ form.handlers[2].pc = "ignored"
    /\ form.handlers[3].pc = "signed in"
    /\ ~form.inFlight /\ ~form.disabled

\* ------------------------------------------------------------------------
\* The Strava sync of the activities page (ui/activities.js doStravaSync)
\* ------------------------------------------------------------------------
\* sync.runs lists the calls of doStravaSync in the order of the clicks; pc
\* is the await a call stands at ("request", "page", "summary", "badge") or
\* how it ended ("done", "failed"); log lists what the call started and saw
\* settle.  A disabled button dispatches no click event.

MaxSyncs == 2

\* hundredths, as everywhere in the unit section: created 2
TwoCreated == Num(200)

\* created||0
OrZero(x) == IF EqNull(x) \/ x.h = 0 THEN Num(0) ELSE x

\* showStatus(text, extraClass)
showStatus(s, text, cls, created, updated) ==
    [s EXCEPT !.status = [shown |-> TRUE, text |-> text, cls |-> cls,
                          created |-> created, updated |-> updated]]

\* hideStatus()
hideStatus(s) ==
    [s EXCEPT !.status = [shown |-> FALSE, text |-> "", cls |-> "",
                          created |-> Num(0), updated |-> Num(0)]]

\* The end of doStravaSync when only the first button came back.
FinallySyncOnly(s) ==
    [s EXCEPT !.syncDisabled = FALSE, !.timers = @ + 1]

\* finally { elSyncBtn.disabled = false; elFullSyncBtn.disabled = false;
\*           setTimeout(hideStatus, 4000); }
Finally(s) ==
    [s EXCEPT !.syncDisabled = FALSE, !.fullDisabled = FALSE, !.timers = @ + 1]

\* The calls of doStravaSync that have not ended.
Syncing(s) == {r \in DOMAIN s.runs : s.runs[r].pc \notin {"done", "failed"}}

SyncFrame ==
    UNCHANGED <<storageVars, httpVars, storeVars, opVars, dateVars, viewVars,
                utilVars, unit, dest, form, wk>>

\* A click on "Sync" (full = FALSE) or on "Full re-sync" (full = TRUE):
\* doStravaSync runs up to await fetchJSON('/sync/strava?replace=...').
ClickSync(full) ==
    /\ sync.kind = "sync"
    /\ Len(sync.runs) < MaxSyncs
    /\ ~(IF full THEN sync.fullDisabled ELSE sync.syncDisabled)
    /\ sync' = showStatus(
                 [sync EXCEPT !.syncDisabled = TRUE, !.fullDisabled = TRUE,
                              !.runs = Append(@, [pc |-> "request", full |-> full,
                                                  log |-> <<>>])],
                 IF full THEN "Full re-sync started" ELSE "Sync started", "spin",
                 Num(0), Num(0))
    /\ SyncFrame

\* The request resolves with res: the message, then loadActivityPage() starts.
SyncAnswered(r, created, updated) ==
    /\ sync.kind = "sync"
    /\ r \in DOMAIN sync.runs /\ sync.runs[r].pc = "request"
    /\ sync' = showStatus(
                 [sync EXCEPT !.runs[r].pc = "page",
                              !.runs[r].log = Append(@, "page started")],
                 IF ~EqNull(created) \/ ~EqNull(updated)
                 THEN "Sync complete, created and updated" ELSE "Sync complete",
                 "ok",
                 IF ~EqNull(created) \/ ~EqNull(updated) THEN OrZero(created) ELSE Num(0),
                 IF ~EqNull(created) \/ ~EqNull(updated) THEN OrZero(updated) ELSE Num(0))
    /\ SyncFrame

\* The request rejects: catch shows e.message or 'Sync failed', finally runs.
SyncRejected(r, message) ==
    /\ sync.kind = "sync"
    /\ r \in DOMAIN sync.runs /\ sync.runs[r].pc = "request"
    /\ sync' = Finally(showStatus([sync EXCEPT !.runs[r].pc = "failed"],
                                  IF message = "" THEN "Sync failed" ELSE message,
                                  "err", Num(0), Num(0)))
    /\ SyncFrame

\* loadActivityPage() settles (it catches its own failure and returns at
\* once when ensureAuth() is false); loadSummary() starts.
SyncPageSettled(r, outcome) ==
    /\ sync.kind = "sync"
    /\ r \in DOMAIN sync.runs /\ sync.runs[r].pc = "page"
    /\ sync' = [sync EXCEPT !.runs[r].pc = "summary",
                            !.runs[r].log = @ \o <<"page settled", "summary started">>,
                            !.rows = outcome]
    /\ SyncFrame

\* loadSummary() settles (it catches its own failure); loadStravaBadge() starts.
SyncSummarySettled(r, outcome) ==
    /\ sync.kind = "sync"
    /\ r \in DOMAIN sync.runs /\ sync.runs[r].pc = "summary"
    /\ sync' = [sync EXCEPT !.runs[r].pc = "badge",
                            !.runs[r].log = @ \o <<"summary settled", "badge started">>,
                            !.kpis = outcome]
    /\ SyncFrame

\* loadStravaBadge() settles (it catches its own failure); finally runs.
SyncBadgeSettled(r, outcome) ==
    /\ sync.kind = "sync"
    /\ r \in DOMAIN sync.runs /\ sync.runs[r].pc = "badge"
    /\ sync' = Finally([sync EXCEPT !.runs[r].pc = "done",
                                    !.runs[r].log = Append(@, "badge settled"),
                                    !.badge = outcome])
    /\ SyncFrame

\* A setTimeout(hideStatus, 4000) fires.
HideStatusTimer ==
    /\ sync.kind = "sync" /\ sync.timers > 0
    /\ sync' = [hideStatus(sync) EXCEPT !.timers = @ - 1]
    /\ SyncFrame

SyncInit ==
    /\ sync = hideStatus([kind |-> "sync", syncDisabled |-> FALSE, fullDisabled |-> FALSE,
                          status |-> NoCall, runs |-> <<>>, timers |-> 0,
                          rows |-> "first load", kpis |-> "first load",
                          badge |-> "first load"])
    /\ week = NoCall /\ gro = NoCall /\ agg = NoCall /\ sport = NoCall
    /\ unit = NoCall /\ dest = NoCall /\ form = NoCall /\ wk = NoCall
    /\ dateIn = NoDate /\ dateOut = NoDate
    /\ ls = EmptyLocal /\ ss = EmptySession /\ winAccess = Null
    /\ page \in {p \in Pages : p.search = <<>> /\ p.qtoken = Null}
    /\ href = Null /\ req = Idle /\ out = Idle /\ logout = "idle"
    /\ lastWrite = Idle /\ got = NoGet
    /\ op = Idle
    /\ loads = <<>> /\ view = NoView

\* res.created and res.updated
SyncCounts == {JNull, Num(0), TwoCreated}

SyncNext ==
    \/ \E full \in BOOLEAN : ClickSync(full)
    \/ \E r \in 1..MaxSyncs, created \in SyncCounts, updated \in SyncCounts :
          SyncAnswered(r, created, updated)
    \/ \E r \in 1..MaxSyncs, message \in {"", "HTTP 500"} : SyncRejected(r, message)
    \/ \E r \in 1..MaxSyncs, outcome \in {"rows", "error shown", "not signed in"} :
          SyncPageSettled(r, outcome)
    \/ \E r \in 1..MaxSyncs, outcome \in {"totals", "zeros"} :
          SyncSummarySettled(r, outcome)
    \/ \E r \in 1..MaxSyncs, outcome \in {"connected", "not connected", "hidden"} :
          SyncBadgeSettled(r, outcome)
    \/ HideStatusTimer

SpecSync == SyncInit /\ [][SyncNext]_vars

\* The follow-up reloads of a successful sync, as started and settled.
ReloadOrder ==
    <<"page started", "page settled", "summary started", "summary settled",
      "badge started", "badge settled">>

\* C28: while a call of doStravaSync has not ended both buttons are
\* disabled; when every call has ended (done or failed) both are enabled;
\* the reloads of a call start and settle in the order page, summary, badge,
\* each started only after the one before settled, all of them by the time
\* the call is done; a call whose request failed started none.
C28_ButtonsAndReloadOrder ==
    sync.kind = "sync" =>
        /\ Syncing(sync) # {} => (sync.syncDisabled /\ sync.fullDisabled)
        /\ Syncing(sync) = {} => (~sync.syncDisabled /\ ~sync.fullDisabled)
        /\ Cardinality(Syncing(sync)) <= 1
        /\ \A r \in DOMAIN sync.runs :
              /\ Len(sync.runs[r].log) <= Len(ReloadOrder)
              /\ sync.runs[r].log = SubSeq(ReloadOrder, 1, Len(sync.runs[r].log))
              /\ sync.runs[r].pc = "done" => sync.runs[r].log = ReloadOrder
              /\ sync.runs[r].pc \in {"request", "failed"} => sync.runs[r].log = <<>>

\* A full re-sync failed, then a sync ran to its end: both buttons are back.
C28_Witness ==
    /\ sync.kind = "sync"
    /\ Len(sync.runs) = 2
    /\ sync.runs[1].pc = "failed" /\ sync.runs[1].full
    /\ sync.runs[2].pc = "done" /\ ~sync.runs[2].full
    /\ ~sync.syncDisabled /\ ~sync.fullDisabled

\* ------------------------------------------------------------------------
\* The 7 parallel fetches of a week load (ui/plan-week.js loadWeek)
\* ------------------------------------------------------------------------
\* wk.loads lists the calls of loadWeek in the order triggered.  A call keeps
\* the day number of its first date, the set `waiting` of the positions whose
\* fetch has not settled, the array `results` Promise.all fills, and whether
\* some fetch settled before one of an earlier position (`shuffled`).  A plan
\* is [date, load]: the date it was fetched for and the call that fetched it.

MaxWeekLoads == 1

\* A place of the results array that holds no plan yet.
NoPlanYet == [date |-> 0 - 1, load |-> 0]

\* The results filled in the order the fetches settle.
PlaceOnArrival(results, i, value) ==
    [results EXCEPT ![CHOOSE k \in DOMAIN results :
                         /\ results[k] = NoPlanYet
                         /\ \A j \in 1..(k - 1) : results[j] # NoPlanYet] = value]

\* Promise.all: the value of the i-th promise becomes the i-th result.
PromiseAllPlace(results, i, value) == [results EXCEPT ![i] = value]

\* weekDates(), as day numbers: position i is the day start + i - 1.
WkDate(start, i) == start + i - 1

\* What fetchDayPlan(dates[i], diet) resolves with in call a.
WkPlan(a, start, i) == [date |-> WkDate(start, i), load |-> a]

WkFrame ==
    UNCHANGED <<storageVars, httpVars, storeVars, opVars, dateVars, viewVars,
                utilVars, unit, dest, form, sync>>

\* loadWeek() up to await Promise.all(...): the alerts and the grid are
\* cleared, the 7 requests are sent.
WkLoadWeek(start) ==
    /\ wk.kind = "fetches"
    /\ Len(wk.loads) < MaxWeekLoads
    /\ wk' = [wk EXCEPT !.grid = <<>>, !.status = "",
                        !.loads = Append(@, [pc |-> "flight", start |-> start,
                                             waiting |-> 1..Days,
                                             results |-> [i \in 1..Days |-> NoPlanYet],
                                             shuffled |-> FALSE])]
    /\ WkFrame

\* The fetch of position i of call a is fulfilled; with the last one
\* Promise.all resolves: the cards are rendered, the list is kept, ok().
WkFetchFulfils(a, i) ==
    /\ wk.kind = "fetches"
    /\ a \in DOMAIN wk.loads /\ wk.loads[a].pc = "flight"
    /\ i \in wk.loads[a].waiting
    /\ LET call == wk.loads[a]
           plans == PromiseAllPlace(call.results, i, WkPlan(a, call.start, i))
           after == [call EXCEPT !.waiting = @ \ {i}, !.results = plans,
                                 !.shuffled = @ \/ \E j \in (i + 1)..Days : j \notin call.waiting]
       IN wk' = IF after.waiting = {}
                THEN [wk EXCEPT !.loads[a] = [after EXCEPT !.pc = "done"],
                                !.grid = @ \o plans,
                                !.weekPlans = [set |-> TRUE, by |-> a, plans |-> plans],
                                !.status = "Week loaded."]
                ELSE [wk EXCEPT !.loads[a] = after]
    /\ WkFrame

\* The fetch of position i of call a is rejected: Promise.all rejects, the
\* catch shows the message; what the other fetches bring is dropped.
WkFetchRejects(a, i) ==
    /\ wk.kind = "fetches"
    /\ a \in DOMAIN wk.loads /\ wk.loads[a].pc = "flight"
    /\ i \in wk.loads[a].waiting
    /\ wk' = [wk EXCEPT !.loads[a].pc = "failed", !.loads[a].waiting = {},
                        !.loads[a].results = [k \in 1..Days |-> NoPlanYet],
                        !.loads[a].shuffled = FALSE,
                        !.status = "error"]
    /\ WkFrame

\* The day numbers the week_start field may hold.
WkStarts == {1, 8}

WkInit ==
    /\ wk = [kind |-> "fetches", loads |-> <<>>, grid |-> <<>>,
             weekPlans |-> [set |-> FALSE, by |-> 0, plans |-> <<>>], status |-> ""]
    /\ week = NoCall /\ gro = NoCall /\ agg = NoCall /\ sport = NoCall
    /\ unit = NoCall /\ dest = NoCall /\ form = NoCall /\ sync = NoCall
    /\ dateIn = NoDate /\ dateOut = NoDate
    /\ ls = EmptyLocal /\ ss = EmptySession /\ winAccess = Null
    /\ page \in {p \in Pages : p.search = <<>> /\ p.qtoken = Null}
    /\ href = Null /\ req = Idle /\ out = Idle /\ logout = "idle"
    /\ lastWrite = Idle /\ got = NoGet
    /\ op = Idle
    /\ loads = <<>> /\ view = NoView

WkNext ==
    \/ \E start \in WkStarts : WkLoadWeek(start)
    \/ \E a \in 1..MaxWeekLoads, i \in 1..Days : WkFetchFulfils(a, i)
    \/ \E a \in 1..MaxWeekLoads, i \in 1..Days : WkFetchRejects(a, i)

SpecWeekFetches == WkInit /\ [][WkNext]_vars

\* The plans of call a in the order of its dates.
InDateOrder(a) == [i \in 1..Days |-> WkPlan(a, wk.loads[a].start, i)]

\* C29: when a call of loadWeek succeeds, the cards it adds to the grid and
\* the list it keeps in window.__glyco_weekPlans are the plans of its 7 dates
\* in the order of the dates, whatever the order its fetches settled in.
C29_PlansInDateOrder ==
    [][\A a \in DOMAIN wk.loads :
          (wk.loads[a].pc = "flight" /\ wk'.loads[a].pc = "done") =>
              /\ wk'.weekPlans = [set |-> TRUE, by |-> a, plans |-> InDateOrder(a)]
              /\ wk'.grid = wk.grid \o InDateOrder(a)]_vars

\* A load succeeded although some fetch settled before an earlier one.
C29_Witness ==
    /\ wk.kind = "fetches"
    /\ \E a \in DOMAIN wk.loads :
          /\ wk.loads[a].pc = "done" /\ wk.loads[a].shuffled
          /\ wk.weekPlans.by = a /\ Len(wk.grid) = Days
          /\ wk.status = "Week loaded."

\* ------------------------------------------------------------------------
\* The weekly exports read the stored plan list (ui/plan-week.js exportTxt,
\* exportCsv; plan page buildCombinedGrocery)
\* ------------------------------------------------------------------------
\* wk.calls lists the calls of loadWeek on the page wk.doc in the order
\* triggered, each "flight" until its fetches settled, then "done" or
\* "failed"; wk.weekPlans is window.__glyco_weekPlans, named by the call
\* that stored it (by = 0: none); wk.menu fixes what the backend serves.
\* wk.txt and wk.csv are the last text each export handed to download() and
\* the list it was made of.

Quoted == <<"Item", " ", "\"", "A", "\"">>

\* The plan the backend serves to call a for day d.
Served(menu, a, d) ==
    LET first == (menu = "eggs first") = (a % 2 = 1) IN
    CASE menu = "nothing" -> Plan(Absent, <<>>)
      [] d = 1 /\ first ->
            Plan(Some(<< <<"Eggs">>, <<"Milk">> >>),
                 << Meal(Some(<< <<"Eggs">>, <<"eggs", " ">> >>)) >>)
      [] d = 1 /\ ~first ->
            Plan(Some(<< Quoted >>), << Meal(Some(<< Quoted, Null >>)) >>)
      [] d = 2 /\ first ->
            Plan(Some(<< <<"Eggs">> >>),
                 << Meal(Absent), Meal(Some(<< <<"Eggs">>, <<"Milk">> >>)) >>)
      [] OTHER -> Plan(Absent, <<>>)

Menus == {"eggs first", "quoted first", "nothing"}

\* The list assigned before the cards are rendered.
SaveBeforeRender(w, a, nullDay) ==
    [w EXCEPT !.weekPlans = [set |-> TRUE, by |-> a],
              !.calls[a] = IF nullDay = 0 THEN "done" ELSE "failed",
              !.status = IF nullDay = 0 THEN "Week loaded." ELSE "TypeError"]

\* for (const p of plans) renderDayCard(grid, p);
\* window.__glyco_weekPlans = plans; renderDayCard throws on a null plan
\* (plan.date), and then the list is not assigned.
SaveForExport(w, a, nullDay) ==
    IF nullDay = 0
    THEN [w EXCEPT !.weekPlans = [set |-> TRUE, by |-> a], !.calls[a] = "done",
                   !.status = "Week loaded."]
    ELSE [w EXCEPT !.calls[a] = "failed", !.status = "TypeError"]

\* window.__glyco_weekPlans || [] (plans || [] in aggregateIngredients)
WeekPlansOrEmpty(w) ==
    IF w.weekPlans.set
    THEN [d \in 1..Days |-> Served(w.menu, w.weekPlans.by, d)]
    ELSE <<>>

Exported(w, text) == [done |-> TRUE, of |-> w.weekPlans.by, text |-> text]
NotExported == [done |-> FALSE, of |-> 0, text |-> <<>>]

ExportFrame ==
    UNCHANGED <<storageVars, httpVars, storeVars, opVars, dateVars, viewVars,
                utilVars, unit, dest, form, sync>>

\* loadWeek() with a start date, up to its first await: the alerts (the
\* status line) are reset.
ExportLoadWeek ==
    /\ wk.kind = "exports"
    /\ Len(wk.calls) < MaxLoads
    /\ wk' = [wk EXCEPT !.calls = Append(@, "flight"), !.status = ""]
    /\ ExportFrame

\* The 7 plans of call a were fetched (day nullDay as null, when not 0): the
\* cards are rendered and the list is kept.
ExportWeekFetched(a, nullDay) ==
    /\ wk.kind = "exports"
    /\ a \in DOMAIN wk.calls /\ wk.calls[a] = "flight"
    /\ wk' = SaveForExport(wk, a, nullDay)
    /\ ExportFrame

\* A fetch of call a was rejected: the catch block (the status line on the
\* plan page) shows the message.
ExportWeekRejected(a) ==
    /\ wk.kind = "exports"
    /\ a \in DOMAIN wk.calls /\ wk.calls[a] = "flight"
    /\ wk' = [wk EXCEPT !.calls[a] = "failed", !.status = "HTTP error"]
    /\ ExportFrame

\* A click on export_txt of ui/plan-week.js
ClickExportTxt ==
    /\ wk.kind = "exports" /\ wk.doc = "plan-week"
    /\ wk' = [wk EXCEPT !.txt = Exported(wk, exportTxt(WeekPlansOrEmpty(wk)))]
    /\ ExportFrame

\* A click on export_csv of ui/plan-week.js
ClickExportCsv ==
    /\ wk.kind = "exports" /\ wk.doc = "plan-week"
    /\ wk' = [wk EXCEPT !.csv = Exported(wk, exportCsv(WeekPlansOrEmpty(wk)))]
    /\ ExportFrame

\* A click on one of the two grocery buttons of the plan page
ClickPlanExport(format) ==
    /\ wk.kind = "exports" /\ wk.doc = "plan"
    /\ LET text == buildCombinedGrocery(WeekPlansOrEmpty(wk), format) IN
         wk' = IF format = "csv" THEN [wk EXCEPT !.csv = Exported(wk, text)]
                                 ELSE [wk EXCEPT !.txt = Exported(wk, text)]
    /\ ExportFrame

ExportInit ==
    /\ \E menu \in Menus, doc \in {"plan-week", "plan"} :
          wk = [kind |-> "exports", doc |-> doc, menu |-> menu, calls |-> <<>>,
                weekPlans |-> [set |-> FALSE, by |-> 0], status |-> "",
                txt |-> NotExported, csv |-> NotExported]
    /\ loads = <<>> /\ view = NoView
    /\ ls = EmptyLocal /\ ss = EmptySession /\ winAccess = Null
    /\ page \in {p \in Pages : p.search = <<>> /\ p.qtoken = Null}
    /\ href = Null /\ req = Idle /\ out = Idle /\ logout = "idle"
    /\ lastWrite = Idle /\ got = NoGet
    /\ op = Idle
    /\ dateIn = NoDate /\ dateOut = NoDate
    /\ week = NoCall /\ gro = NoCall /\ agg = NoCall /\ sport = NoCall
    /\ unit = NoCall /\ dest = NoCall /\ form = NoCall /\ sync = NoCall

ExportNext ==
    \/ ExportLoadWeek
    \/ \E a \in 1..MaxLoads, nullDay \in {0} \cup NullDays : ExportWeekFetched(a, nullDay)
    \/ \E a \in 1..MaxLoads : ExportWeekRejected(a)
    \/ ClickExportTxt
    \/ ClickExportCsv
    \/ \E format \in {"txt", "csv"} : ClickPlanExport(format)

SpecExports == ExportInit /\ [][ExportNext]_vars

\* The count a digit stands for.
DigitValue(d) == CHOOSE v \in 1..9 : Decimal(v) = d

\* A line of the text export read back: `- <item>` or `- <item>  x<count>`.
TxtItem(line) ==
    IF Len(line) >= 3 /\ line[Len(line) - 1] = "  x"
    THEN [key |-> SubSeq(line, 2, Len(line) - 2), count |-> DigitValue(line[Len(line)])]
    ELSE [key |-> SubSeq(line, 2, Len(line)), count |-> 1]

\* Every doubled double quote read back as one.
RECURSIVE Undouble(_)
Undouble(k) ==
    IF Len(k) = 0 THEN <<>>
    ELSE IF Len(k) >= 2 /\ k[1] = "\"" /\ k[2] = "\""
         THEN <<"\"">> \o Undouble(SubSeq(k, 3, Len(k)))
         ELSE <<k[1]>> \o Undouble(Tail(k))

\* A row of the CSV export read back: `"<item>",<count>`.
CsvItem(row) ==
    [key |-> Undouble(SubSeq(row, 2, Len(row) - 3)), count |-> DigitValue(row[Len(row)])]

\* The items and counts a text export lists, in its order.
TxtItems(text) ==
    IF text = <<>> THEN <<>>
    ELSE LET Read(lines) == [i \in 1..Len(lines) |-> TxtItem(lines[i])]
         IN CHOOSE items \in {Read(lines) : lines \in {LinesOf(text)}} : TRUE

\* The items and counts a CSV export lists under its header, in its order.
CsvItems(text) ==
    LET Read(lines) == [i \in 1..(Len(lines) - 1) |-> CsvItem(lines[i + 1])]
    IN CHOOSE items \in {Read(lines) : lines \in {LinesOf(text)}} : TRUE

\* The ingredient strings of the list load a stored (none for a = 0), as the
\* page's exports take them: from the meals on plan-week, from grocery_list
\* on the plan page.
StoredRaws(a) ==
    IF a = 0 THEN <<>>
    ELSE Concat([d \in 1..Days |->
                    IF wk.doc = "plan-week"
                    THEN MealRaws(Served(wk.menu, a, d))
                    ELSE Served(wk.menu, a, d).grocery_list.items])

\* What the last exports hold is the count of the list they were made of.
ExportsOfStoredList ==
    \E txt \in {IF wk.txt.done THEN TxtItems(wk.txt.text) ELSE <<>>},
       csv \in {IF wk.csv.done THEN CsvItems(wk.csv.text) ELSE <<>>},
       txtRaws \in {StoredRaws(wk.txt.of)}, csvRaws \in {StoredRaws(wk.csv.of)} :
        /\ wk.txt.done =>
              /\ IsCountOf(txt, txtRaws)
              /\ wk.txt.of = 0 => wk.txt.text = <<>>
        /\ wk.csv.done =>
              /\ LinesOf(wk.csv.text)[1] = <<"item,count">>
              /\ IsCountOf(csv, csvRaws)
              /\ wk.csv.of = 0 => wk.csv.text = <<"item,count">>
        /\ (wk.txt.done /\ wk.csv.done /\ wk.txt.of = wk.csv.of) => txt = csv

\* C30: the stored plan list changes only in the step in which a week load
\* succeeds, and then to the 7 plans of that load: a load that fails leaves
\* it as it was; an export is made of the list stored at the click; before
\* any list is stored the text export is empty and the CSV export is the
\* header alone; and a text and a CSV export of the same stored list name
\* the same items in the same order with the same counts, those of the list.
C30_ExportsOfStoredList ==
    [][/\ \A a \in DOMAIN wk.calls :
             (wk.calls[a] = "flight" /\ wk'.calls[a] = "done") =>
                 wk'.weekPlans = [set |-> TRUE, by |-> a]
       /\ (\A a \in DOMAIN wk.calls : ~(wk.calls[a] = "flight" /\ wk'.calls[a] = "done")) =>
             wk'.weekPlans = wk.weekPlans
       /\ wk'.txt # wk.txt => (wk'.txt.done /\ wk'.txt.of = wk.weekPlans.by)
       /\ wk'.csv # wk.csv => (wk'.csv.done /\ wk'.csv.of = wk.weekPlans.by)
       /\ ExportsOfStoredList']_vars

\* After a second load failed, both exports were made of the list of the
\* first: two items, one of them counted more than once.
C30_Witness ==
    /\ wk.kind = "exports"
    /\ Len(wk.calls) = 2 /\ wk.calls[1] = "done" /\ wk.calls[2] = "failed"
    /\ wk.txt.done /\ wk.csv.done
    /\ wk.txt.of = 1 /\ wk.csv.of = 1
    /\ Len(TxtItems(wk.txt.text)) >= 2
    /\ \E i \in 1..Len(TxtItems(wk.txt.text)) : TxtItems(wk.txt.text)[i].count > 1

====
